---- MODULE Spec2Model ----
(***************************************************************************)
(* Model of the schema-migration subsystem of async_easy_model             *)
(* (src/async_easy_model/migrations.py): the fingerprint store, the        *)
(* migration history, the live database schema and the steps of            *)
(* MigrationManager.migrate_models between its suspension points.          *)
(*                                                                         *)
(* Abstractions: sha256 over the sorted JSON dump is collision-free, so a  *)
(* fingerprint is the dumped structure itself; the database engine applies *)
(* DDL transactionally (engine.begin() commits on normal exit and rolls    *)
(* back when an exception leaves the block); any awaited database call may *)
(* fail or be cancelled.                                                   *)
(*                                                                         *)
(* Further specifications over the same variables study one part each:     *)
(* SpecApply (apply_migration with a caller's operation list), SpecHash    *)
(* (_get_model_hash on class descriptions), SpecTasks (two migrate_models  *)
(* coroutines on one event loop), SpecBoot (init_db of model.py),          *)
(* SpecReboot (init_db called again on the same files and database),       *)
(* SpecDup (lists with two classes of one name), SpecResolver (the         *)
(* relationship resolver, whose module is not in this tree and is modelled *)
(* from its specification), SpecCrud (the record operations of EasyModel)  *)
(* and SpecToDict (EasyModel.to_dict as a stack of calls).                 *)
(***************************************************************************)
EXTENDS Integers, Sequences, FiniteSets, TLC

\* Bound of the exploration: the number of edits of a class plus the number of
\* migration runs.
MaxEvents == 2

VARIABLES
    defs,            \* class -> its columns (model.__table__.columns), name -> column
    edits,           \* number of edits made to the class definitions
    dirExists,       \* .easy_model_migrations exists
    hashFile,        \* model_hashes.json: [state, data]
    historyFile,     \* migration_history.json: [state, data]
    db,              \* committed live schema: table -> sequence of [name, type]
    tx,              \* schema as seen inside the open transaction of the run
    pc,              \* position of the migrate_models coroutine
    models,          \* the list of classes given to the last call
    changes,         \* the dict returned by detect_model_changes, in insertion order
    idx,             \* position of the for loop over changes.items()
    ops,             \* operations of the entity being migrated
    opi,             \* position of the for loop over operations in apply_migration
    applied_changes, \* the list apply_migration collects
    results,         \* the dict migrate_models builds
    outcome,         \* how the last call ended: none, detected, returned, raised, cancelled
    runs,            \* number of runs started
    now,             \* the clock read by datetime.now()
    atStart,         \* history variable: the files and the schema as the run found them
    lastEdit,        \* history variable: what the last edit of a class did
    pair,            \* two class descriptions given to _get_model_hash
    digest,          \* the fingerprints _get_model_hash returned for them
    task,            \* the locals of each of two migrate_models coroutines
    boot,            \* the position and the log of an init_db call
    registry,        \* the entities and relationships the relationship resolver holds
    orm,             \* the rows of one entity's table and the last call on the entity
    dump             \* the call stack of one to_dict call and its result

\* The migration manager, its files and the database.
mainVars == <<defs, edits, dirExists, hashFile, historyFile, db, tx, pc, models,
              changes, idx, ops, opi, applied_changes, results, outcome, runs, now,
              atStart, lastEdit>>

\* The state of the parts that are studied on their own.
hashVars == <<pair, digest>>

crudVars == <<orm, dump>>

sideVars == <<hashVars, task, boot, registry, crudVars>>

vars == <<mainVars, sideVars>>

NoDigest == [done |-> FALSE, h1 |-> <<>>, h2 |-> <<>>]

NoPair == [e1 |-> <<>>, e2 |-> <<>>, changed |-> 0]

HashIdle ==
    /\ pair = NoPair
    /\ digest = NoDigest

TasksIdle == task = <<>>

BootIdle == boot = <<>>

ResolverIdle == registry = <<>>

CrudIdle == orm = <<>> /\ dump = <<>>

\* The parts studied on their own are not in use.
SideIdle == HashIdle /\ TasksIdle /\ BootIdle /\ ResolverIdle /\ CrudIdle

----------------------------------------------------------------------------
\* Entity classes.

Classes == {"A", "B"}

\* A2 is another class named A, defined in another module.
ClassName(c) == IF c = "A2" THEN "A" ELSE c

TableName(c) == IF ClassName(c) = "A" THEN "a" ELSE "b"

ColOrder == <<"id", "x", "y">>

Cols == {ColOrder[i] : i \in DOMAIN ColOrder}

Types == {"INTEGER", "VARCHAR"}

\* B.y is the foreign key column of B referencing a.id.
ForeignKeysOf(c, col) == IF c = "B" /\ col = "y" THEN <<"a.id">> ELSE <<>>

IdColumn ==
    [type |-> "INTEGER", nullable |-> FALSE, primary_key |-> TRUE,
     default |-> "None", unique |-> "None", foreign_keys |-> <<>>]

ColumnsFor(c, col) ==
    {[type |-> t, nullable |-> n, primary_key |-> FALSE, default |-> "None",
      unique |-> "None", foreign_keys |-> ForeignKeysOf(c, col)] :
        t \in Types, n \in BOOLEAN}

\* The column sets a class definition may have: id plus any of the others.
TableDefs(c) ==
    UNION {{f \in [({"id"} \cup S) -> UNION {ColumnsFor(c, col) : col \in Cols} \cup {IdColumn}] :
               /\ f["id"] = IdColumn
               /\ \A col \in S : f[col] \in ColumnsFor(c, col)} :
           S \in SUBSET (Cols \ {"id"})}

\* model.__table__.columns.items(): the columns in definition order.
ColumnItems(columns) == SelectSeq(ColOrder, LAMBDA col : col \in DOMAIN columns)

\* __sqlmodel_relationships__ of a class: A.bs <-> B.a.
Relationships(c) ==
    IF ClassName(c) = "A"
    THEN [bs |-> [target |-> "B", back_populates |-> "a", link_model |-> "None",
                  sa_relationship_args |-> "None"]]
    ELSE [a |-> [target |-> "A", back_populates |-> "bs", link_model |-> "None",
                 sa_relationship_args |-> "None"]]

----------------------------------------------------------------------------
\* Dictionaries.

EmptyDict == <<>>

\* Variant: the assignment is lost.
DictPutDropped(d, k, v) == d

DictPut(d, k, v) == [n \in DOMAIN d \cup {k} |-> IF n = k THEN v ELSE d[n]]

\* A Python dict keeps insertion order; assigning an existing key keeps its place.
RECURSIVE OrderedPut(_, _)
OrderedPut(s, e) ==
    IF s = <<>> THEN <<e>>
    ELSE IF Head(s).name = e.name THEN <<e>> \o Tail(s)
    ELSE <<Head(s)>> \o OrderedPut(Tail(s), e)

Keys(s) == {s[i].name : i \in DOMAIN s}

----------------------------------------------------------------------------
\* The persisted files.

AbsentFile == [state |-> "absent", data |-> <<>>]

MalformedFile == [state |-> "malformed", data |-> <<>>]

OkFile(d) == [state |-> "ok", data |-> d]

\* _ensure_migrations_dir: the files are written only when the directory is made.
EnsuredHashFile(exists, hf) == IF exists THEN hf ELSE OkFile(EmptyDict)

\* Variant: the history file is written empty whenever a manager is made.
EnsuredHistoryFileAlways(exists, hf) == OkFile(<<>>)

EnsuredHistoryFile(exists, hf) == IF exists THEN hf ELSE OkFile(<<>>)

\* Variant: the default of a column is not part of the fingerprint.
FieldInfoNoDefault(column) ==
    [type |-> column.type, nullable |-> column.nullable,
     primary_key |-> column.primary_key, default |-> "None",
     unique |-> column.unique, foreign_keys |-> column.foreign_keys]

\* _get_model_hash.
FieldInfo(column) ==
    [type |-> column.type, nullable |-> column.nullable,
     primary_key |-> column.primary_key, default |-> column.default,
     unique |-> column.unique, foreign_keys |-> column.foreign_keys]

\* Variant: the fingerprint also covers the columns of the relationship targets.
get_model_hash_with_targets(c, d) ==
    [table_name |-> TableName(c),
     fields |-> [name \in DOMAIN d[c] |-> FieldInfo(d[c][name])],
     relationships |-> Relationships(c),
     targets |-> [o \in Classes \ {c} |-> DOMAIN d[o]]]

get_model_hash(c, d) ==
    [table_name |-> TableName(c),
     fields |-> [name \in DOMAIN d[c] |-> FieldInfo(d[c][name])],
     relationships |-> Relationships(c)]

\* Variant: the stored fingerprints are not read.
load_model_hashes_nothing(hf) == EmptyDict

\* _load_model_hashes.
load_model_hashes(hf) == IF hf.state = "ok" THEN hf.data ELSE EmptyDict

\* _save_model_hashes.
save_model_hashes(hashes) == OkFile(hashes)

\* Variant: a history file that does not parse is left as it is.
record_migration_parsed_only(hf, model_name, chg, t) ==
    IF hf.state = "malformed"
    THEN hf
    ELSE OkFile(Append(IF hf.state = "ok" THEN hf.data ELSE <<>>,
                       [timestamp |-> t, model |-> model_name, changes |-> chg]))

\* _record_migration.
record_migration(hf, model_name, chg, t) ==
    LET history == IF hf.state = "ok" THEN hf.data ELSE <<>>
    IN  OkFile(Append(history, [timestamp |-> t, model |-> model_name, changes |-> chg]))

----------------------------------------------------------------------------
\* detect_model_changes.

ChangeEntry(c, stored, d) ==
    [name |-> ClassName(c),
     status |-> IF ClassName(c) \notin DOMAIN stored THEN "new" ELSE "modified",
     hash |-> get_model_hash(c, d)]

\* Variant: only a missing fingerprint counts as a change.
IsChangedOnlyNew(c, stored, d) == ClassName(c) \notin DOMAIN stored

IsChanged(c, stored, d) ==
    \/ ClassName(c) \notin DOMAIN stored
    \/ stored[ClassName(c)] # get_model_hash(c, d)

RECURSIVE DetectLoop(_, _, _, _)
DetectLoop(ms, stored, d, acc) ==
    IF ms = <<>> THEN acc
    ELSE DetectLoop(Tail(ms), stored, d,
                    IF IsChanged(Head(ms), stored, d)
                    THEN OrderedPut(acc, ChangeEntry(Head(ms), stored, d))
                    ELSE acc)

detect_model_changes(ms, hf, d) == DetectLoop(ms, load_model_hashes(hf), d, <<>>)

----------------------------------------------------------------------------
\* generate_migration_plan.

HasTable(schema, t) == t \in DOMAIN schema

ColNames(columns) == {columns[i].name : i \in DOMAIN columns}

DbCol(columns, name) == CHOOSE col \in {columns[i] : i \in DOMAIN columns} : col.name = name

CreateTableOp(t) == [operation |-> "create_table", table_name |-> t]

AddColumnOp(t, name, column) ==
    [operation |-> "add_column", table_name |-> t, column_name |-> name,
     column_type |-> column.type, nullable |-> column.nullable]

AlterColumnOp(t, name, old, new) ==
    [operation |-> "alter_column", table_name |-> t, column_name |-> name,
     old_type |-> old, new_type |-> new]

DropColumnOp(t, name) ==
    [operation |-> "drop_column", table_name |-> t, column_name |-> name]

\* Variant: a column present in both is never altered.
ColumnOpsNoAlter(t, name, column, db_columns) ==
    IF name \notin ColNames(db_columns)
    THEN <<[operation |-> "add_column", table_name |-> t, column_name |-> name,
            column_type |-> column.type, nullable |-> column.nullable]>>
    ELSE <<>>

\* The body of the loop over model_columns.items(), for one column.
ColumnOps(t, name, column, db_columns) ==
    IF name \notin ColNames(db_columns)
    THEN <<AddColumnOp(t, name, column)>>
    ELSE IF column.type # DbCol(db_columns, name).type
         THEN <<AlterColumnOp(t, name, DbCol(db_columns, name).type, column.type)>>
         ELSE <<>>

RECURSIVE ModelColumnLoop(_, _, _, _)
ModelColumnLoop(t, names, model_columns, db_columns) ==
    IF names = <<>> THEN <<>>
    ELSE ColumnOps(t, Head(names), model_columns[Head(names)], db_columns)
         \o ModelColumnLoop(t, Tail(names), model_columns, db_columns)

\* The body of the loop over db_columns, for one column.
DropOps(t, name, model_columns) ==
    IF name \notin DOMAIN model_columns THEN <<DropColumnOp(t, name)>> ELSE <<>>

RECURSIVE DbColumnLoop(_, _, _)
DbColumnLoop(t, db_columns, model_columns) ==
    IF db_columns = <<>> THEN <<>>
    ELSE DropOps(t, Head(db_columns).name, model_columns)
         \o DbColumnLoop(t, Tail(db_columns), model_columns)

\* Variant: a missing table is diffed as a table without columns.
generate_migration_plan_no_table_check(c, schema, d) ==
    LET table_name == TableName(c)
        db_columns == IF HasTable(schema, table_name) THEN schema[table_name] ELSE <<>>
    IN  ModelColumnLoop(table_name, ColumnItems(d[c]), d[c], db_columns)
        \o DbColumnLoop(table_name, db_columns, d[c])

\* Variant: the columns to drop are collected first.
generate_migration_plan_drops_first(c, schema, d) ==
    LET table_name == TableName(c)
    IN  IF ~HasTable(schema, table_name)
        THEN <<CreateTableOp(table_name)>>
        ELSE DbColumnLoop(table_name, schema[table_name], d[c])
             \o ModelColumnLoop(table_name, ColumnItems(d[c]), d[c], schema[table_name])

generate_migration_plan(c, schema, d) ==
    LET table_name == TableName(c)
    IN  IF ~HasTable(schema, table_name)
        THEN <<CreateTableOp(table_name)>>
        ELSE ModelColumnLoop(table_name, ColumnItems(d[c]), d[c], schema[table_name])
             \o DbColumnLoop(table_name, schema[table_name], d[c])

----------------------------------------------------------------------------
\* apply_migration: the effect of one operation on the schema.

\* CreateTable(model.__table__): the columns of the new table.
CreatedColumns(columns) ==
    [i \in DOMAIN ColumnItems(columns) |->
        [name |-> ColumnItems(columns)[i], type |-> columns[ColumnItems(columns)[i]].type]]

\* Whether the database can execute the statement at all.
Executable(op, c, schema, d) ==
    CASE op.operation = "create_table" -> ~HasTable(schema, TableName(c))
      [] op.operation = "add_column" ->
            /\ HasTable(schema, op.table_name)
            /\ op.column_name \notin ColNames(schema[op.table_name])
      [] op.operation = "alter_column" ->
            /\ HasTable(schema, op.table_name)
            /\ op.column_name \in ColNames(schema[op.table_name])
      [] op.operation = "drop_column" ->
            /\ HasTable(schema, op.table_name)
            /\ op.column_name \in ColNames(schema[op.table_name])
      [] OTHER -> TRUE

\* add_column executes nothing when the model has no such column.
HasColumnDef(op, c, d) == op.operation # "add_column" \/ op.column_name \in DOMAIN d[c]

Executed(op, c, schema, d) ==
    CASE op.operation = "create_table" ->
            DictPut(schema, TableName(c), CreatedColumns(d[c]))
      [] op.operation = "add_column" ->
            DictPut(schema, op.table_name,
                    Append(schema[op.table_name],
                           [name |-> op.column_name, type |-> d[c][op.column_name].type]))
      [] op.operation = "alter_column" ->
            DictPut(schema, op.table_name,
                    [i \in DOMAIN schema[op.table_name] |->
                        IF schema[op.table_name][i].name = op.column_name
                        THEN [name |-> op.column_name, type |-> op.new_type]
                        ELSE schema[op.table_name][i]])
      [] op.operation = "drop_column" ->
            DictPut(schema, op.table_name,
                    SelectSeq(schema[op.table_name],
                              LAMBDA col : col.name # op.column_name))
      [] OTHER -> schema

\* engine.begin(): what the database holds after the block is left.
Committed(committed, working) == working

\* Variant: the statements executed before the exception stay applied.
RolledBackKeepsWork(committed, working) == working

RolledBack(committed, working) == committed

\* next((m for m in models if m.__name__ == model_name), None)
FindModel(ms, model_name) ==
    ms[CHOOSE i \in DOMAIN ms :
          /\ ClassName(ms[i]) = model_name
          /\ \A j \in 1..(i - 1) : ClassName(ms[j]) # model_name]

----------------------------------------------------------------------------
\* Initial states.

\* The lists of classes given to migrate_models and to detect_model_changes.
ModelLists == {<<"A">>, <<"B">>, <<"A", "B">>, <<"B", "A">>}

DetectLists == ModelLists

\* The classes as first written: A(id, x) and B(id, x, y -> a.id).
InitialDefs ==
    [c \in Classes |->
        [col \in (IF c = "A" THEN {"id", "x"} ELSE Cols) |->
            IF col = "id" THEN IdColumn
            ELSE [type |-> IF col = "x" THEN "VARCHAR" ELSE "INTEGER",
                  nullable |-> TRUE, primary_key |-> FALSE,
                  default |-> "None", unique |-> "None",
                  foreign_keys |-> ForeignKeysOf(c, col)]]]

NoEdit == [kind |-> "none", cls |-> "A", col |-> "id", migrated |-> FALSE]

NoStart == [hashes |-> EmptyDict, history |-> <<>>, db |-> EmptyDict]

\* The locals of a call that has not been made.
NoCall ==
    /\ pc = "idle"
    /\ models = <<>>
    /\ changes = <<>>
    /\ idx = 0
    /\ ops = <<>>
    /\ opi = 0
    /\ applied_changes = <<>>
    /\ results = <<>>
    /\ outcome = "none"
    /\ atStart = NoStart

FreshStates ==
    {<<FALSE, AbsentFile, AbsentFile>>,
     <<TRUE, AbsentFile, AbsentFile>>,
     <<TRUE, MalformedFile, OkFile(<<>>)>>,
     <<TRUE, OkFile(EmptyDict), MalformedFile>>,
     <<TRUE, OkFile(EmptyDict), OkFile(<<>>)>>}

\* A first start: no database table, the state directory absent, or present with
\* its files absent, one of them malformed, or both empty.
InitFresh ==
    /\ \E fs \in FreshStates :
          /\ dirExists = fs[1]
          /\ hashFile = fs[2]
          /\ historyFile = fs[3]
    /\ db = EmptyDict
    /\ now = 1

\* A start after migrate_models([A, B]) created and recorded both tables.
InitMigrated ==
    /\ dirExists = TRUE
    /\ hashFile = OkFile([n \in {ClassName(c) : c \in Classes} |->
                            get_model_hash(CHOOSE c \in Classes : ClassName(c) = n,
                                           InitialDefs)])
    /\ historyFile = OkFile(<<[timestamp |-> 1, model |-> ClassName("A"),
                               changes |-> <<CreateTableOp(TableName("A"))>>],
                              [timestamp |-> 2, model |-> ClassName("B"),
                               changes |-> <<CreateTableOp(TableName("B"))>>]>>)
    /\ db = [t \in {TableName(c) : c \in Classes} |->
                CreatedColumns(InitialDefs[CHOOSE c \in Classes : TableName(c) = t])]
    /\ now = 3

Init ==
    /\ defs = InitialDefs
    /\ edits = 0
    /\ runs = 0
    /\ lastEdit = NoEdit
    /\ NoCall
    /\ InitFresh \/ InitMigrated
    /\ tx = db
    /\ SideIdle

\* The manager is not in use: nothing on disk, no table, no call.
MainParked ==
    /\ defs = InitialDefs
    /\ edits = 0
    /\ runs = 0
    /\ lastEdit = NoEdit
    /\ NoCall
    /\ dirExists = FALSE
    /\ hashFile = AbsentFile
    /\ historyFile = AbsentFile
    /\ db = EmptyDict
    /\ tx = EmptyDict
    /\ now = 1

----------------------------------------------------------------------------
\* Actions.

\* Class c is migrated: its fingerprint is stored and its table has its columns.
Migrated(c) ==
    /\ hashFile.state = "ok"
    /\ ClassName(c) \in DOMAIN hashFile.data
    /\ hashFile.data[ClassName(c)] = get_model_hash(c, defs)
    /\ HasTable(db, TableName(c))
    /\ db[TableName(c)] = CreatedColumns(defs[c])

AllMigrated == \A c \in Classes : Migrated(c)

\* What an edit from columns old to columns new did.
EditKind(c, old, new, migrated) ==
    IF /\ Cardinality(DOMAIN new \ DOMAIN old) = 1
       /\ DOMAIN old \subseteq DOMAIN new
       /\ \A col \in DOMAIN old : new[col] = old[col]
    THEN [kind |-> "add_field", cls |-> c,
          col |-> CHOOSE col \in DOMAIN new \ DOMAIN old : TRUE, migrated |-> migrated]
    ELSE [kind |-> "other", cls |-> c, col |-> "id", migrated |-> migrated]

\* The developer changes the definition of class c and the program starts again.
EditModel(c, f) ==
    /\ pc = "idle"
    /\ edits + runs < MaxEvents
    /\ f # defs[c]
    /\ defs' = [defs EXCEPT ![c] = f]
    /\ edits' = edits + 1
    /\ lastEdit' = EditKind(c, defs[c], f, AllMigrated)
    /\ pc' = "idle"
    /\ models' = <<>>
    /\ changes' = <<>>
    /\ idx' = 0
    /\ ops' = <<>>
    /\ opi' = 0
    /\ applied_changes' = <<>>
    /\ results' = <<>>
    /\ outcome' = "none"
    /\ atStart' = NoStart
    /\ UNCHANGED <<dirExists, hashFile, historyFile, db, tx, now, runs,
                   sideVars>>

\* MigrationManager(): __init__ and _ensure_migrations_dir.
Construct ==
    /\ pc = "idle"
    /\ dirExists' = TRUE
    /\ hashFile' = EnsuredHashFile(dirExists, hashFile)
    /\ historyFile' = EnsuredHistoryFile(dirExists, historyFile)
    /\ UNCHANGED <<defs, edits, db, tx, pc, now, lastEdit, models, changes, idx, ops,
                   opi, applied_changes, results, outcome, runs, atStart, sideVars>>

\* Variant: a file that cannot be read is rewritten as an empty store.
AfterLoadRewrites(hf) == IF hf.state = "ok" THEN hf ELSE [state |-> "ok", data |-> <<>>]

\* What reading the fingerprint file leaves in it.
AfterLoad(hf) == hf

\* detect_model_changes(ms) on a constructed manager.
DetectChanges(ms) ==
    /\ pc = "idle"
    /\ dirExists
    /\ models' = ms
    /\ changes' = detect_model_changes(ms, hashFile, defs)
    /\ hashFile' = AfterLoad(hashFile)
    /\ idx' = 0
    /\ ops' = <<>>
    /\ opi' = 0
    /\ applied_changes' = <<>>
    /\ results' = <<>>
    /\ outcome' = "detected"
    /\ atStart' = NoStart
    /\ UNCHANGED <<defs, edits, dirExists, historyFile, db, tx, pc, now, lastEdit, runs,
                   sideVars>>

\* check_and_migrate_models(ms): the manager is constructed and migrate_models runs
\* up to engine.begin().
MigrateBegin(ms) ==
    /\ pc = "idle"
    /\ edits + runs < MaxEvents
    /\ runs' = runs + 1
    /\ dirExists' = TRUE
    /\ hashFile' = AfterLoad(EnsuredHashFile(dirExists, hashFile))
    /\ historyFile' = EnsuredHistoryFile(dirExists, historyFile)
    /\ models' = ms
    /\ changes' = detect_model_changes(ms, EnsuredHashFile(dirExists, hashFile), defs)
    /\ atStart' = [hashes |-> load_model_hashes(hashFile'),
                   history |-> historyFile'.data, db |-> db]
    /\ results' = <<>>
    /\ ops' = <<>>
    /\ opi' = 0
    /\ applied_changes' = <<>>
    /\ IF changes' = <<>>
       THEN /\ pc' = "idle"
            /\ outcome' = "returned"
            /\ idx' = 0
            /\ tx' = tx
       ELSE /\ pc' = "loop"
            /\ outcome' = "none"
            /\ idx' = 1
            /\ tx' = db
    /\ UNCHANGED <<defs, edits, db, now, lastEdit,
                   sideVars>>

CurrentModel == FindModel(models, changes[idx].name)

\* generate_migration_plan for the next entry of changes.
Plan ==
    /\ pc = "loop"
    /\ idx <= Len(changes)
    /\ ops' = generate_migration_plan(CurrentModel, tx, defs)
    /\ pc' = "planned"
    /\ UNCHANGED <<defs, edits, dirExists, hashFile, historyFile, db, tx, now, lastEdit,
                   models, changes, idx, opi, applied_changes, results, outcome, runs,
                   atStart,
                   sideVars>>

\* if operations: apply_migration is entered, or the entry is passed over.
EnterApply ==
    /\ pc = "planned"
    /\ IF ops # <<>>
       THEN /\ pc' = "exec"
            /\ opi' = 1
            /\ idx' = idx
       ELSE /\ pc' = "loop"
            /\ opi' = 0
            /\ idx' = idx + 1
    /\ applied_changes' = <<>>
    /\ UNCHANGED <<defs, edits, dirExists, hashFile, historyFile, db, tx, now, lastEdit,
                   models, changes, ops, results, outcome, runs, atStart, sideVars>>

\* An exception leaves migrate_models through the engine.begin() block.
Raise(how) ==
    /\ db' = RolledBack(db, tx)
    /\ tx' = db'
    /\ pc' = "idle"
    /\ outcome' = how
    /\ UNCHANGED <<defs, edits, dirExists, hashFile, historyFile, now, lastEdit,
                   models, changes, idx, ops, opi, applied_changes, results, runs,
                   atStart,
                   sideVars>>

\* await connection.execute(...) for one operation.
ExecuteOp(ok) ==
    /\ pc = "exec"
    /\ opi <= Len(ops)
    /\ IF ~HasColumnDef(ops[opi], CurrentModel, defs)
       THEN /\ ok
            /\ opi' = opi + 1
            /\ UNCHANGED <<defs, edits, dirExists, hashFile, historyFile, db, tx, pc, now,
                           lastEdit, models, changes, idx, ops, applied_changes, results,
                           outcome, runs, atStart, sideVars>>
       ELSE IF ok /\ Executable(ops[opi], CurrentModel, tx, defs)
       THEN /\ tx' = Executed(ops[opi], CurrentModel, tx, defs)
            /\ applied_changes' = Append(applied_changes, ops[opi])
            /\ opi' = opi + 1
            /\ UNCHANGED <<defs, edits, dirExists, hashFile, historyFile, db, pc, now,
                           lastEdit, models, changes, idx, ops, results, outcome, runs,
                           atStart, sideVars>>
       ELSE Raise("raised")

\* The host cancels the run while it waits for the database.
Cancel ==
    /\ pc \in {"loop", "exec"}
    /\ pc = "loop" => idx <= Len(changes)
    /\ pc = "exec" => opi <= Len(ops)
    /\ Raise("cancelled")

\* The end of apply_migration: history, fingerprint, results[model_name].
Record ==
    /\ pc = "exec"
    /\ opi > Len(ops)
    /\ historyFile' = record_migration(historyFile, ClassName(CurrentModel),
                                       applied_changes, now)
    /\ hashFile' = save_model_hashes(DictPut(load_model_hashes(hashFile),
                                             ClassName(CurrentModel),
                                             get_model_hash(CurrentModel, defs)))
    /\ now' = now + 1
    /\ results' = OrderedPut(results, [name |-> changes[idx].name, operations |-> ops])
    /\ idx' = idx + 1
    /\ opi' = 0
    /\ applied_changes' = <<>>
    /\ pc' = "loop"
    /\ UNCHANGED <<defs, edits, dirExists, db, tx, lastEdit, models, changes, ops,
                   outcome, runs, atStart, sideVars>>

\* The loop is over: engine.begin() commits and migrate_models returns results.
Commit ==
    /\ pc = "loop"
    /\ idx > Len(changes)
    /\ db' = Committed(db, tx)
    /\ tx' = db'
    /\ pc' = "idle"
    /\ outcome' = "returned"
    /\ UNCHANGED <<defs, edits, dirExists, hashFile, historyFile, now, lastEdit,
                   models, changes, idx, ops, opi, applied_changes, results, runs,
                   atStart,
                   sideVars>>

Next ==
    \/ \E c \in Classes : \E f \in TableDefs(c) : EditModel(c, f)
    \/ Construct
    \/ \E ms \in DetectLists : DetectChanges(ms)
    \/ \E ms \in ModelLists : MigrateBegin(ms)
    \/ Plan
    \/ EnterApply
    \/ \E ok \in BOOLEAN : ExecuteOp(ok)
    \/ Cancel
    \/ Record
    \/ Commit

Spec == Init /\ [][Next]_vars

----------------------------------------------------------------------------
\* apply_migration called by its own caller, with an operation list of the caller.

MaxOps == 2

\* The operations a caller can put in a list for class c.
CallerOps(c) ==
    LET t == TableName(c)
        column == [type |-> "VARCHAR", nullable |-> TRUE]
    IN  {CreateTableOp(t),
         AddColumnOp(t, "x", column),
         AddColumnOp(t, "y", column),
         AlterColumnOp(t, "x", "VARCHAR", "INTEGER"),
         DropColumnOp(t, "x")}

OperationLists(c) ==
    UNION {[1..n -> CallerOps(c)] : n \in 1..MaxOps}

\* manager = MigrationManager(); async with engine.begin() as connection:
\* await manager.apply_migration(c, operations, connection).  The model argument is
\* held as the one entry of changes.
ApplyBegin(c, operations) ==
    /\ pc = "idle"
    /\ edits + runs < MaxEvents
    /\ runs' = runs + 1
    /\ dirExists' = TRUE
    /\ hashFile' = EnsuredHashFile(dirExists, hashFile)
    /\ historyFile' = EnsuredHistoryFile(dirExists, historyFile)
    /\ models' = <<c>>
    /\ changes' = <<[name |-> ClassName(c), status |-> "given"]>>
    /\ atStart' = [hashes |-> load_model_hashes(hashFile'),
                   history |-> historyFile'.data, db |-> db]
    /\ results' = <<>>
    /\ ops' = operations
    /\ opi' = 1
    /\ applied_changes' = <<>>
    /\ idx' = 1
    /\ pc' = "exec"
    /\ outcome' = "none"
    /\ tx' = db
    /\ UNCHANGED <<defs, edits, db, now, lastEdit,
                   sideVars>>

NextApply ==
    \/ \E c \in Classes : \E operations \in OperationLists(c) : ApplyBegin(c, operations)
    \/ \E ok \in BOOLEAN : ExecuteOp(ok)
    \/ Cancel
    \/ Record
    \/ Commit

SpecApply == Init /\ [][NextApply]_vars

----------------------------------------------------------------------------
\* _get_model_hash on its own: a class is described by its table name, its columns
\* and its relationships in the order the class enumerates them, and by what a class
\* has besides (the index flag of a column, the docstring).

MaxChanges == 2

\* Every column, relationship and attribute name in use, in the order of sorted().
NameOrder == <<"a", "id", "owner", "tags", "x", "y">>

Rank(n) == CHOOSE i \in DOMAIN NameOrder : NameOrder[i] = n

\* class B: id, x, a (-> A, back bs), tags (-> Tag through BTag, back bs).
BaseEntity ==
    [table_name |-> "b",
     doc |-> "",
     columns |-> <<[name |-> "id", type |-> "INTEGER", nullable |-> FALSE,
                    primary_key |-> TRUE, default |-> "None", unique |-> "None",
                    foreign_keys |-> <<>>, index |-> FALSE],
                   [name |-> "x", type |-> "VARCHAR", nullable |-> TRUE,
                    primary_key |-> FALSE, default |-> "None", unique |-> "None",
                    foreign_keys |-> <<>>, index |-> FALSE]>>,
     relationships |-> <<[name |-> "a", target |-> "A", back_populates |-> "bs",
                          link_model |-> "None", sa_relationship_args |-> "None"],
                         [name |-> "tags", target |-> "Tag", back_populates |-> "bs",
                          link_model |-> "BTag", sa_relationship_args |-> "None"]>>]

\* A dict as its items in insertion order; d[k] = v keeps the place of a key it has.
RECURSIVE SetItem(_, _, _)
SetItem(items, k, v) ==
    IF items = <<>> THEN <<<<k, v>>>>
    ELSE IF Head(items)[1] = k THEN <<<<k, v>>>> \o Tail(items)
    ELSE <<Head(items)>> \o SetItem(Tail(items), k, v)

\* for name, column in model_class.__table__.columns.items(): fields[name] = field_info
RECURSIVE FieldsLoop(_, _)
FieldsLoop(columns, fields) ==
    IF columns = <<>> THEN fields
    ELSE FieldsLoop(Tail(columns),
                    SetItem(fields, Head(columns).name, FieldInfo(Head(columns))))

rel_dict(rel_info) ==
    [target |-> rel_info.target, back_populates |-> rel_info.back_populates,
     link_model |-> rel_info.link_model,
     sa_relationship_args |-> rel_info.sa_relationship_args]

\* for rel_name, rel_info in __sqlmodel_relationships__.items()
RECURSIVE RelationshipsLoop(_, _)
RelationshipsLoop(rels, relationships) ==
    IF rels = <<>> THEN relationships
    ELSE RelationshipsLoop(Tail(rels),
                           SetItem(relationships, Head(rels).name, rel_dict(Head(rels))))

model_dict(e) ==
    [table_name |-> e.table_name,
     fields |-> FieldsLoop(e.columns, <<>>),
     relationships |-> RelationshipsLoop(e.relationships, <<>>)]

\* Variant: the items are dumped in insertion order.
InsertionItems(items) == items

RECURSIVE Insert(_, _)
Insert(item, sorted) ==
    IF sorted = <<>> THEN <<item>>
    ELSE IF Rank(item[1]) <= Rank(Head(sorted)[1]) THEN <<item>> \o sorted
    ELSE <<Head(sorted)>> \o Insert(item, Tail(sorted))

\* sort_keys=True: the items of a dict are dumped in the order of their keys.
RECURSIVE SortedItems(_)
SortedItems(items) ==
    IF items = <<>> THEN <<>> ELSE Insert(Head(items), SortedItems(Tail(items)))

\* json.dumps(model_dict, sort_keys=True); the dicts with fixed keys are records.
json_dumps(d) ==
    [table_name |-> d.table_name,
     fields |-> SortedItems(d.fields),
     relationships |-> SortedItems(d.relationships)]

\* hashlib.sha256(model_json.encode()).hexdigest(), taken as collision-free.
model_hash(e) == json_dumps(model_dict(e))

Swapped(s) == IF Len(s) = 2 THEN <<s[2], s[1]>> ELSE s

ColumnVariants(col) ==
    {[col EXCEPT !.name = v] : v \in {"x", "y"}}
    \cup {[col EXCEPT !.type = v] : v \in Types}
    \cup {[col EXCEPT !.nullable = v] : v \in BOOLEAN}
    \cup {[col EXCEPT !.primary_key = v] : v \in BOOLEAN}
    \cup {[col EXCEPT !.default = v] : v \in {"None", "ScalarElementColumnDefault(0)"}}
    \cup {[col EXCEPT !.unique = v] : v \in {"None", "True"}}
    \cup {[col EXCEPT !.foreign_keys = v] : v \in {<<>>, <<"a.id">>}}
    \cup {[col EXCEPT !.index = v] : v \in BOOLEAN}

RelationshipVariants(rel) ==
    {[rel EXCEPT !.name = v] : v \in {"a", "owner"}}
    \cup {[rel EXCEPT !.target = v] : v \in {"A", "Tag"}}
    \cup {[rel EXCEPT !.back_populates = v] : v \in {"bs", "None"}}
    \cup {[rel EXCEPT !.link_model = v] : v \in {"None", "BTag"}}
    \cup {[rel EXCEPT !.sa_relationship_args = v] : v \in {"None", "{'lazy': 'joined'}"}}

DistinctNames(s) == \A i, j \in DOMAIN s : s[i].name = s[j].name => i = j

\* The class descriptions one edit away from e.
Variants(e) ==
    {v \in {[e EXCEPT !.table_name = t] : t \in {"a", "b"}}
           \cup {[e EXCEPT !.doc = d] : d \in {"", "A class."}}
           \cup {[e EXCEPT !.columns = Swapped(e.columns)],
                 [e EXCEPT !.relationships = Swapped(e.relationships)]}
           \cup UNION {{[e EXCEPT !.columns[i] = c] : c \in ColumnVariants(e.columns[i])} :
                           i \in DOMAIN e.columns}
           \cup UNION {{[e EXCEPT !.relationships[i] = r] :
                            r \in RelationshipVariants(e.relationships[i])} :
                           i \in DOMAIN e.relationships} :
        /\ v # e
        /\ DistinctNames(v.columns)
        /\ DistinctNames(v.relationships)}

InitHash ==
    /\ MainParked
    /\ TasksIdle
    /\ BootIdle
    /\ ResolverIdle
    /\ CrudIdle
    /\ pair = [e1 |-> BaseEntity, e2 |-> BaseEntity, changed |-> 0]
    /\ digest = NoDigest

\* One of the two classes is edited.
ChangeEntity(k, e) ==
    /\ pair.changed < MaxChanges
    /\ pair' = IF k = 1 THEN [pair EXCEPT !.e1 = e, !.changed = @ + 1]
               ELSE [pair EXCEPT !.e2 = e, !.changed = @ + 1]
    /\ digest' = NoDigest
    /\ UNCHANGED <<mainVars, task, boot, registry, crudVars>>

\* _get_model_hash is called for both classes.
ComputeHashes ==
    /\ digest' = [done |-> TRUE, h1 |-> model_hash(pair.e1), h2 |-> model_hash(pair.e2)]
    /\ UNCHANGED <<pair, mainVars, task, boot, registry, crudVars>>

NextHash ==
    \/ \E e \in Variants(pair.e1) : ChangeEntity(1, e)
    \/ \E e \in Variants(pair.e2) : ChangeEntity(2, e)
    \/ ComputeHashes

SpecHash == InitHash /\ [][NextHash]_vars

----------------------------------------------------------------------------
\* Two migrate_models coroutines on one event loop.  A step of a task runs from one
\* await to the next; the files, the clock and the committed schema are shared, the
\* open transaction and the locals belong to the task.

Tasks == {1, 2}

IdleTask ==
    [pc |-> "idle", models |-> <<>>, changes |-> <<>>, stored |-> EmptyDict, idx |-> 0,
     ops |-> <<>>, opi |-> 0, applied_changes |-> <<>>, tx |-> EmptyDict,
     results |-> <<>>, records |-> <<>>]

\* The classes after an edit: A.x is an integer and A has the new column y, B.x is
\* an integer.
EditedDefs ==
    [InitialDefs EXCEPT
        !["A"] = [col \in Cols |->
                     IF col = "y"
                     THEN [type |-> "INTEGER", nullable |-> TRUE, primary_key |-> FALSE,
                           default |-> "None", unique |-> "None", foreign_keys |-> <<>>]
                     ELSE IF col = "x"
                     THEN [InitialDefs["A"]["x"] EXCEPT !.type = "INTEGER"]
                     ELSE InitialDefs["A"][col]],
        !["B"] = [InitialDefs["B"] EXCEPT !["x"].type = "INTEGER"]]

InitTasks ==
    /\ edits = 0
    /\ runs = 0
    /\ lastEdit = NoEdit
    /\ NoCall
    /\ \/ /\ defs = InitialDefs
          /\ dirExists = TRUE
          /\ \E fs \in FreshStates : fs[1] /\ hashFile = fs[2] /\ historyFile = fs[3]
          /\ db = EmptyDict
          /\ now = 1
       \/ /\ defs = EditedDefs
          /\ InitMigrated
    /\ tx = db
    /\ HashIdle
    /\ BootIdle
    /\ ResolverIdle
    /\ CrudIdle
    /\ task = [t \in Tasks |-> IdleTask]

\* Variant: the fingerprints loaded by detect_model_changes are the ones updated.
StaleHashes(hf, stored) == stored

\* hashes = self._load_model_hashes() at the end of apply_migration.
ReloadedHashes(hf, stored) == load_model_hashes(hf)

TaskModel(t) == FindModel(task[t].models, task[t].changes[task[t].idx].name)

\* check_and_migrate_models(ms) up to the await of engine.begin(): the manager is
\* constructed and detect_model_changes, which never suspends, has returned.
TaskBegin(t, ms) ==
    /\ task[t].pc = "idle"
    /\ dirExists' = TRUE
    /\ hashFile' = EnsuredHashFile(dirExists, hashFile)
    /\ historyFile' = EnsuredHistoryFile(dirExists, historyFile)
    /\ LET chg == detect_model_changes(ms, hashFile', defs)
       IN  task' = [task EXCEPT ![t] =
                       [IdleTask EXCEPT !.pc = IF chg = <<>> THEN "returned" ELSE "loop",
                                        !.models = ms,
                                        !.changes = chg,
                                        !.stored = load_model_hashes(hashFile'),
                                        !.idx = IF chg = <<>> THEN 0 ELSE 1,
                                        !.tx = db]]
    /\ UNCHANGED <<defs, edits, db, tx, pc, now, lastEdit, models, changes, idx, ops, opi,
                   applied_changes, results, outcome, runs, atStart, hashVars, boot,
                   registry, crudVars>>

\* The task resumes from connection.run_sync in generate_migration_plan and runs to
\* the first connection.execute of apply_migration, or to the next entry of changes.
TaskPlan(t) ==
    /\ task[t].pc = "loop"
    /\ task[t].idx <= Len(task[t].changes)
    /\ LET operations == generate_migration_plan(TaskModel(t), task[t].tx, defs)
       IN  task' = [task EXCEPT ![t] =
                       IF operations # <<>>
                       THEN [@ EXCEPT !.ops = operations, !.opi = 1, !.pc = "exec",
                                      !.applied_changes = <<>>]
                       ELSE [@ EXCEPT !.ops = operations, !.idx = @ + 1]]
    /\ UNCHANGED <<mainVars, hashVars, boot, registry, crudVars>>

\* The task resumes from a connection.execute that succeeded and is not the last.
TaskExecute(t) ==
    /\ task[t].pc = "exec"
    /\ task[t].opi < Len(task[t].ops)
    /\ Executable(task[t].ops[task[t].opi], TaskModel(t), task[t].tx, defs)
    /\ task' = [task EXCEPT ![t] =
                   [@ EXCEPT !.tx = Executed(task[t].ops[task[t].opi], TaskModel(t),
                                             task[t].tx, defs),
                             !.applied_changes = Append(@, task[t].ops[task[t].opi]),
                             !.opi = @ + 1]]
    /\ UNCHANGED <<mainVars, hashVars, boot, registry, crudVars>>

\* The task resumes from the last connection.execute: apply_migration records the
\* migration and the fingerprint and returns, results[model_name] is set, and the
\* loop goes on to the next await.
TaskExecuteLast(t) ==
    /\ task[t].pc = "exec"
    /\ task[t].opi = Len(task[t].ops)
    /\ Executable(task[t].ops[task[t].opi], TaskModel(t), task[t].tx, defs)
    /\ LET applied == Append(task[t].applied_changes, task[t].ops[task[t].opi])
           name == ClassName(TaskModel(t))
       IN  /\ historyFile' = record_migration(historyFile, name, applied, now)
           /\ hashFile' = save_model_hashes(
                              DictPut(ReloadedHashes(hashFile, task[t].stored), name,
                                      get_model_hash(TaskModel(t), defs)))
           /\ task' = [task EXCEPT ![t] =
                          [@ EXCEPT !.tx = Executed(task[t].ops[task[t].opi], TaskModel(t),
                                                    task[t].tx, defs),
                                    !.applied_changes = applied,
                                    !.opi = 0,
                                    !.idx = @ + 1,
                                    !.pc = "loop",
                                    !.results = OrderedPut(@, [name |-> name,
                                                               operations |-> task[t].ops]),
                                    !.records = Append(@, [timestamp |-> now, model |-> name,
                                                           changes |-> applied])]]
    /\ now' = now + 1
    /\ UNCHANGED <<defs, edits, dirExists, db, tx, pc, lastEdit, models, changes, idx, ops,
                   opi, applied_changes, results, outcome, runs, atStart, hashVars, boot,
                   registry, crudVars>>

\* A connection.execute of the task raises: the exception leaves migrate_models and
\* the transaction of the task is rolled back.
TaskFail(t) ==
    /\ task[t].pc = "exec"
    /\ task' = [task EXCEPT ![t] = [@ EXCEPT !.pc = "raised", !.tx = db]]
    /\ UNCHANGED <<mainVars, hashVars, boot, registry, crudVars>>

\* The tables a task has changed.
Touched(t) ==
    {TableName(FindModel(task[t].models, task[t].results[i].name)) :
        i \in DOMAIN task[t].results}

\* The loop of the task is over: its transaction commits and migrate_models returns.
TaskCommit(t) ==
    /\ task[t].pc = "loop"
    /\ task[t].idx > Len(task[t].changes)
    /\ db' = [n \in DOMAIN db \cup Touched(t) |->
                 IF n \in Touched(t) THEN task[t].tx[n] ELSE db[n]]
    /\ tx' = db'
    /\ task' = [task EXCEPT ![t] = [@ EXCEPT !.pc = "returned"]]
    /\ UNCHANGED <<defs, edits, dirExists, hashFile, historyFile, pc, now, lastEdit, models,
                   changes, idx, ops, opi, applied_changes, results, outcome, runs,
                   atStart, hashVars, boot, registry, crudVars>>

NextTasks ==
    \/ \E t \in Tasks : \E ms \in ModelLists : TaskBegin(t, ms)
    \/ \E t \in Tasks : TaskPlan(t)
    \/ \E t \in Tasks : TaskExecute(t)
    \/ \E t \in Tasks : TaskExecuteLast(t)
    \/ \E t \in Tasks : TaskFail(t)
    \/ \E t \in Tasks : TaskCommit(t)

SpecTasks == InitTasks /\ [][NextTasks]_vars

----------------------------------------------------------------------------
\* init_db(migrate, model_classes).

\* Variant: the migrate argument is not consulted.
ShouldMigrateWhenAvailable(b) == b.has_migrations

\* if has_migrations and migrate:
ShouldMigrate(b) == b.has_migrations /\ b.migrate

\* init_db is called.  has_migrations is whether `from .migrations import
\* check_and_migrate_models, _create_table_without_indexes,
\* _create_indexes_one_by_one` succeeds: the migrations.py at hand defines the first
\* name only, a release that defines all three makes it true.
InitBoot ==
    /\ defs \in {InitialDefs, EditedDefs}
    /\ edits = 0
    /\ runs = 0
    /\ lastEdit = NoEdit
    /\ NoCall
    /\ InitFresh \/ InitMigrated
    /\ tx = db
    /\ HashIdle
    /\ TasksIdle
    /\ ResolverIdle
    /\ CrudIdle
    /\ \E mig \in BOOLEAN, auto \in BOOLEAN, has \in BOOLEAN, ms \in ModelLists :
          boot = [pc |-> "start", migrate |-> mig, auto |-> auto, has_migrations |-> has,
                  model_classes |-> ms, processed |-> FALSE,
                  files |-> <<dirExists, hashFile, historyFile>>, boots |-> 1]

\* if has_auto_relationships and _auto_relationships_enabled:
\* process_auto_relationships(); then the engine and the model classes are fetched.
BootRelationships ==
    /\ boot.pc = "start"
    /\ boot' = [boot EXCEPT !.pc = "migrate", !.processed = boot.auto]
    /\ UNCHANGED <<mainVars, hashVars, task, registry, crudVars>>

\* if has_migrations and migrate: await check_and_migrate_models(model_classes)
BootEnterMigrate ==
    /\ boot.pc = "migrate"
    /\ boot' = [boot EXCEPT !.pc = IF ShouldMigrate(boot) THEN "migrating" ELSE "create"]
    /\ UNCHANGED <<mainVars, hashVars, task, registry, crudVars>>

\* check_and_migrate_models runs migrate_models of a new manager.
BootMigrateBegin ==
    /\ boot.pc = "migrating"
    /\ outcome = "none"
    /\ MigrateBegin(boot.model_classes)

BootMigrateStep ==
    /\ boot.pc = "migrating"
    /\ \/ Plan
       \/ EnterApply
       \/ \E ok \in BOOLEAN : ExecuteOp(ok)
       \/ Cancel
       \/ Record
       \/ Commit

\* check_and_migrate_models has returned.
BootMigrated ==
    /\ boot.pc = "migrating"
    /\ pc = "idle"
    /\ outcome = "returned"
    /\ boot' = [boot EXCEPT !.pc = "create"]
    /\ UNCHANGED <<mainVars, hashVars, task, registry, crudVars>>

\* An exception of check_and_migrate_models leaves init_db.
BootRaised ==
    /\ boot.pc = "migrating"
    /\ pc = "idle"
    /\ outcome \in {"raised", "cancelled"}
    /\ boot' = [boot EXCEPT !.pc = "raised"]
    /\ UNCHANGED <<mainVars, hashVars, task, registry, crudVars>>

\* The schema after the tables of the classes ms that do not exist were created.
WithMissingTables(schema, ms, d) ==
    LET missing == {c \in {ms[i] : i \in DOMAIN ms} : ~HasTable(schema, TableName(c))}
    IN  [n \in DOMAIN schema \cup {TableName(c) : c \in missing} |->
            IF n \in DOMAIN schema THEN schema[n]
            ELSE CreatedColumns(d[CHOOSE c \in missing : TableName(c) = n])]

\* Create tables that don't exist yet, in one engine.begin() block.
BootCreateTables ==
    /\ boot.pc = "create"
    /\ db' = WithMissingTables(db, boot.model_classes, defs)
    /\ tx' = db'
    /\ boot' = [boot EXCEPT !.pc = "done"]
    /\ UNCHANGED <<defs, edits, dirExists, hashFile, historyFile, pc, now, lastEdit, models,
                   changes, idx, ops, opi, applied_changes, results, outcome, runs,
                   atStart, hashVars, task, registry, crudVars>>

NextBoot ==
    \/ BootRelationships
    \/ BootEnterMigrate
    \/ BootMigrateBegin
    \/ BootMigrateStep
    \/ BootMigrated
    \/ BootRaised
    \/ BootCreateTables

SpecBoot == InitBoot /\ [][NextBoot]_vars

----------------------------------------------------------------------------
\* The program is started several times on one database and one state directory,
\* and the classes are edited between two starts.

MaxBoots == 2

\* An empty store and an empty database.
InitReboot ==
    /\ InitBoot
    /\ defs = InitialDefs
    /\ db = EmptyDict

\* init_db is called again, by the same build of the package.
BootAgain ==
    /\ boot.pc \in {"done", "raised"}
    /\ boot.boots < MaxBoots
    /\ \E mig \in BOOLEAN, ms \in ModelLists :
          boot' = [boot EXCEPT !.pc = "start", !.migrate = mig, !.model_classes = ms,
                               !.processed = FALSE, !.boots = @ + 1,
                               !.files = <<dirExists, hashFile, historyFile>>]
    /\ pc' = "idle"
    /\ models' = <<>>
    /\ changes' = <<>>
    /\ idx' = 0
    /\ ops' = <<>>
    /\ opi' = 0
    /\ applied_changes' = <<>>
    /\ results' = <<>>
    /\ outcome' = "none"
    /\ atStart' = NoStart
    /\ UNCHANGED <<defs, edits, dirExists, hashFile, historyFile, db, tx, now, lastEdit,
                   runs, hashVars, task, registry, crudVars>>

\* A class is edited between two starts.
BootEdit ==
    /\ boot.pc \in {"done", "raised"}
    /\ \E c \in Classes : EditModel(c, EditedDefs[c])

NextReboot ==
    \/ NextBoot
    \/ BootAgain
    \/ BootEdit

SpecReboot == InitReboot /\ [][NextReboot]_vars

----------------------------------------------------------------------------
\* migrate_models on lists that hold two classes of one name, or one class twice.

DupDefs ==
    [c \in Classes \cup {"A2"} |-> IF c = "A2" THEN EditedDefs["A"] ELSE InitialDefs[c]]

DupLists ==
    {<<"A", "A2">>, <<"A2", "A">>, <<"A", "A">>, <<"B", "A", "A2">>, <<"A2", "B", "A">>}

InitDup ==
    /\ defs = DupDefs
    /\ edits = 0
    /\ runs = 0
    /\ lastEdit = NoEdit
    /\ NoCall
    /\ InitFresh \/ InitMigrated
    /\ tx = db
    /\ SideIdle

NextDup ==
    \/ \E ms \in DupLists : MigrateBegin(ms)
    \/ Plan
    \/ EnterApply
    \/ \E ok \in BOOLEAN : ExecuteOp(ok)
    \/ Cancel
    \/ Record
    \/ Commit

SpecDup == InitDup /\ [][NextDup]_vars

----------------------------------------------------------------------------
\* The relationship resolver (registerEntity, resolveAll).  A name is the sequence
\* of its parts, so that stripping a suffix and pluralizing are operations on it.

MaxResolves == 2

Tables == {"author", "book", "message", "tag", "booktag", "review"}

\* The foreign-key fields of an entity, in field order.
ForeignKeyFields(t) ==
    CASE t = "book" -> <<[column |-> <<"author", "_id">>, target |-> "author"]>>
      [] t = "message" -> <<[column |-> <<"sender", "_id">>, target |-> "author"],
                            [column |-> <<"recipient", "_id">>, target |-> "author"]>>
      [] t = "booktag" -> <<[column |-> <<"book", "_id">>, target |-> "book"],
                            [column |-> <<"tag", "_id">>, target |-> "tag"]>>
      [] t = "tag" -> <<[column |-> <<"owner">>, target |-> "author"]>>
      [] t = "review" -> <<[column |-> <<"book", "_id">>, target |-> "book"],
                           [column |-> <<"author", "_id">>, target |-> "author"],
                           [column |-> <<"tag", "_id">>, target |-> "tag"]>>
      [] OTHER -> <<>>

\* The only non-key fields of the entity are foreign keys.
OnlyForeignKeys(t) == t \in {"booktag", "review"}

\* The many-to-one attribute is named by stripping the foreign-key suffix; a column
\* without the suffix gives its full name.
StripSuffix(column) ==
    IF Len(column) > 1 /\ column[Len(column)] = "_id"
    THEN SubSeq(column, 1, Len(column) - 1)
    ELSE column

\* The one-to-many attribute is named by pluralizing the owner's table name.
Pluralize(t) == <<t, "s">>

ManyToOne(owner, fk) ==
    [name |-> StripSuffix(fk.column), kind |-> "many-to-one", target |-> fk.target,
     back_populates |-> Pluralize(owner), fk |-> fk.column, via |-> "None",
     origin |-> "inferred"]

\* Variant: the back-reference of the one-to-many side is the column name.
OneToManyBackToColumn(owner, fk) ==
    [name |-> Pluralize(owner), kind |-> "one-to-many", target |-> owner,
     back_populates |-> fk.column, fk |-> fk.column, via |-> "None",
     origin |-> "inferred"]

OneToMany(owner, fk) ==
    [name |-> Pluralize(owner), kind |-> "one-to-many", target |-> owner,
     back_populates |-> StripSuffix(fk.column), fk |-> fk.column, via |-> "None",
     origin |-> "inferred"]

\* Variant: the many-to-many attribute points back at its own side.
ManyToManyToSelf(side, other, junction) ==
    [name |-> Pluralize(other), kind |-> "many-to-many", target |-> side,
     back_populates |-> Pluralize(side), fk |-> <<>>, via |-> junction,
     origin |-> "inferred"]

ManyToMany(side, other, junction) ==
    [name |-> Pluralize(other), kind |-> "many-to-many", target |-> other,
     back_populates |-> Pluralize(side), fk |-> <<>>, via |-> junction,
     origin |-> "inferred"]

\* Variant: no attribute name is ever found taken.
HasAttributeNever(attrs, t, name) == FALSE

HasAttribute(attrs, t, name) == \E d \in attrs[t] : d.name = name

\* One foreign key of one owner.  st is [attrs, warnings]; how is what a naming
\* collision skips: the colliding attribute, or the pair of attributes.
ResolveForeignKey(st, registered, how, owner, fk) ==
    LET m == ManyToOne(owner, fk)
        o == OneToMany(owner, fk)
        ownerFree == ~HasAttribute(st.attrs, owner, m.name)
        targetFree == ~HasAttribute(st.attrs, fk.target, o.name)
        addM == IF how = "pair" THEN ownerFree /\ targetFree ELSE ownerFree
        addO == IF how = "pair" THEN ownerFree /\ targetFree ELSE targetFree
        withM == IF addM THEN [st.attrs EXCEPT ![owner] = @ \cup {m}] ELSE st.attrs
        withO == IF addO THEN [withM EXCEPT ![fk.target] = @ \cup {o}] ELSE withM
    IN  IF fk.target \notin registered
        THEN [st EXCEPT !.warnings = @ \cup {<<owner, fk.column, "missing target">>}]
        ELSE IF \E d \in st.attrs[owner] : d.fk = fk.column
        THEN st
        ELSE [attrs |-> withO,
              warnings |-> IF ownerFree /\ targetFree THEN st.warnings
                           ELSE st.warnings \cup {<<owner, fk.column, "collision">>}]

\* The foreign keys of the registered entities, in registration and field order.
RECURSIVE ForeignKeyList(_)
ForeignKeyList(order) ==
    IF order = <<>> THEN <<>>
    ELSE [i \in DOMAIN ForeignKeyFields(Head(order)) |->
             <<Head(order), ForeignKeyFields(Head(order))[i]>>]
         \o ForeignKeyList(Tail(order))

RECURSIVE ResolveForeignKeys(_, _, _, _)
ResolveForeignKeys(list, st, registered, how) ==
    IF list = <<>> THEN st
    ELSE ResolveForeignKeys(Tail(list),
                            ResolveForeignKey(st, registered, how, Head(list)[1],
                                              Head(list)[2]),
                            registered, how)

\* An entity whose only non-key fields are two or more foreign keys to distinct targets.
IsJunction(t) ==
    /\ OnlyForeignKeys(t)
    /\ Cardinality({ForeignKeyFields(t)[i].target : i \in DOMAIN ForeignKeyFields(t)}) >= 2

\* The pairs of targets junction j links, as <<j, side, other>>, in field order.
SidePairs(j, sides) ==
    LET RECURSIVE From(_, _)
        From(a, b) ==
            IF a > Len(sides) THEN <<>>
            ELSE IF b > Len(sides) THEN From(a + 1, 1)
            ELSE (IF sides[a] # sides[b] THEN <<<<j, sides[a], sides[b]>>>> ELSE <<>>)
                 \o From(a, b + 1)
    IN  From(1, 1)

\* The sides the junctions link, in registration order.
RECURSIVE JunctionList(_, _)
JunctionList(order, registered) ==
    IF order = <<>> THEN <<>>
    ELSE LET j == Head(order)
             fks == ForeignKeyFields(j)
             sides == SelectSeq([i \in DOMAIN fks |-> fks[i].target],
                                LAMBDA x : x \in registered)
         IN  (IF IsJunction(j) THEN SidePairs(j, sides) ELSE <<>>)
             \o JunctionList(Tail(order), registered)

\* Variant: the many-to-many attribute replaces an attribute of its name.
ResolveJunctionSideOverwriting(st, junction, side, other) ==
    LET d == ManyToMany(side, other, junction)
    IN  [st EXCEPT !.attrs[side] = {e \in @ : e.name # d.name} \cup {d}]

ResolveJunctionSide(st, junction, side, other) ==
    LET d == ManyToMany(side, other, junction)
    IN  IF \E e \in st.attrs[side] : e.via = junction /\ e.target = other
        THEN st
        ELSE IF HasAttribute(st.attrs, side, d.name)
        THEN [st EXCEPT !.warnings = @ \cup {<<junction, d.name, "collision">>}]
        ELSE [st EXCEPT !.attrs[side] = @ \cup {d}]

RECURSIVE ResolveJunctions(_, _)
ResolveJunctions(list, st) ==
    IF list = <<>> THEN st
    ELSE ResolveJunctions(Tail(list),
                          ResolveJunctionSide(st, Head(list)[1], Head(list)[2],
                                              Head(list)[3]))

Registered(r) == {r.order[i] : i \in DOMAIN r.order}

\* resolveAll() on registry r.
resolveAll(r) ==
    LET st == [attrs |-> r.attrs, warnings |-> r.warnings]
        afterFks == ResolveForeignKeys(ForeignKeyList(r.order), st, Registered(r), r.how)
        after == ResolveJunctions(JunctionList(r.order, Registered(r)), afterFks)
    IN  [r EXCEPT !.attrs = after.attrs, !.warnings = after.warnings,
                  !.resolves = @ + 1, !.before = r.attrs, !.resolved = r.order]

\* Relationship attributes the classes declare themselves.
ExplicitSets ==
    {[t \in Tables |-> {}],
     \* book.author and author.books, declared on both sides
     [t \in Tables |->
         IF t = "book"
         THEN {[name |-> <<"author">>, kind |-> "many-to-one", target |-> "author",
                back_populates |-> <<"book", "s">>, fk |-> <<"author", "_id">>,
                via |-> "None", origin |-> "explicit"]}
         ELSE IF t = "author"
         THEN {[name |-> <<"book", "s">>, kind |-> "one-to-many", target |-> "book",
                back_populates |-> <<"author">>, fk |-> <<"author", "_id">>,
                via |-> "None", origin |-> "explicit"]}
         ELSE {}],
     \* author.books declared for something else than book.author_id, and book.tags
     \* for something else than the junction
     [t \in Tables |->
         IF t = "author"
         THEN {[name |-> <<"book", "s">>, kind |-> "one-to-many", target |-> "tag",
                back_populates |-> <<"shelf">>, fk |-> <<"shelf", "_id">>,
                via |-> "None", origin |-> "explicit"]}
         ELSE IF t = "book"
         THEN {[name |-> <<"tag", "s">>, kind |-> "one-to-many", target |-> "message",
                back_populates |-> <<"thread">>, fk |-> <<"thread", "_id">>,
                via |-> "None", origin |-> "explicit"]}
         ELSE {}]}

InitResolver ==
    /\ MainParked
    /\ HashIdle
    /\ TasksIdle
    /\ BootIdle
    /\ CrudIdle
    /\ \E explicit \in ExplicitSets, how \in {"attribute", "pair"} :
          registry = [order |-> <<>>, attrs |-> explicit, warnings |-> {},
                      resolves |-> 0, how |-> how, before |-> explicit,
                      resolved |-> <<>>]

\* registerEntity(class): a table already known is left as it is.
registerEntity(t) ==
    /\ registry.resolves < MaxResolves
    /\ registry' = IF t \in Registered(registry) THEN registry
                   ELSE [registry EXCEPT !.order = Append(@, t)]
    /\ UNCHANGED <<mainVars, hashVars, task, boot, crudVars>>

ResolveAll ==
    /\ registry.resolves < MaxResolves
    /\ registry' = resolveAll(registry)
    /\ UNCHANGED <<mainVars, hashVars, task, boot, crudVars>>

NextResolver ==
    \/ \E t \in Tables : registerEntity(t)
    \/ ResolveAll

SpecResolver == InitResolver /\ [][NextResolver]_vars

----------------------------------------------------------------------------
\* The record operations of EasyModel (model.py) on the table of one entity with a
\* unique username and an email.  A Python value carries its type, and its
\* content in a field of the name of the type.

MaxRows == 2

MaxClock == 2

Usernames == {"u1", "u2"}

Emails == {"e1", "e2"}

PyNone == [type |-> "NoneType"]

PyInt(n) == [type |-> "int", int |-> n]

PyBool(b) == [type |-> "bool", bool |-> b]

PyDict(d) == [type |-> "dict", dict |-> d]

PyRecord(r) == [type |-> "record", record |-> r]

\* The def statements of the body of class EasyModel that define the record
\* operations, top to bottom, each with the line of its def.
ClassBody ==
    <<[name |-> "get_by_id", line |-> 308], [name |-> "get_by_attribute", line |-> 331],
      [name |-> "insert", line |-> 394], [name |-> "update", line |-> 422],
      [name |-> "delete", line |-> 452], [name |-> "to_dict", line |-> 518],
      [name |-> "select", line |-> 572], [name |-> "insert", line |-> 648],
      [name |-> "update", line |-> 769], [name |-> "delete", line |-> 890]>>

\* The class body runs top to bottom: a later def of a name rebinds it.
Binding(name) ==
    LET bound == SelectSeq(ClassBody, LAMBDA m : m.name = name)
    IN  bound[Len(bound)].line

\* select(cls).filter_by(**criteria): the rows equal to the criteria on every key.
filter_by(rows, criteria) ==
    {r \in rows : \A k \in DOMAIN criteria : r[k] = criteria[k]}

\* result.scalars().first(): no ORDER BY is given; the engine scans in id order.
first(rows) ==
    IF rows = {} THEN PyNone
    ELSE PyRecord(CHOOSE r \in rows : \A q \in rows : r.id <= q.id)

get_by_id(rows, id) == first(filter_by(rows, [id |-> id]))

\* Variant: the keyword arguments are not applied as a filter.
get_by_attribute_unfiltered(rows, kwargs) == first(rows)

get_by_attribute(rows, kwargs) == first(filter_by(rows, kwargs))

get_with_related(rows, id) == first(filter_by(rows, [id |-> id]))

\* The id the table gives a new row: one more than the largest id in it.
NewId(rows) ==
    IF rows = {} THEN 1
    ELSE 1 + (CHOOSE n \in {r.id : r \in rows} : \A r \in rows : r.id <= n)

Returned(rows, value) == [rows |-> rows, ret |-> value, raised |-> "None"]

Raised(rows, exception) == [rows |-> rows, ret |-> PyNone, raised |-> exception]

\* insert(data) with a dictionary of plain field values (lines 648-766; the earlier
\* def at 394 is rebound).  The unique index rejects a second row of one username at
\* the flush, and the session is left without a commit.
insert(rows, data, clock) ==
    LET obj == [id |-> NewId(rows), username |-> data.username, email |-> data.email,
                created_at |-> clock, updated_at |-> clock]
    IN  IF filter_by(rows, [username |-> data.username]) # {}
        THEN Raised(rows, "IntegrityError")
        ELSE Returned(rows \cup {obj}, first(filter_by(rows \cup {obj}, [id |-> obj.id])))

\* UPDATE ... SET values on the rows that match the criteria.
Updated(rows, criteria, values) ==
    {IF r \in filter_by(rows, criteria)
     THEN [k \in DOMAIN r |-> IF k \in DOMAIN values THEN values[k] ELSE r[k]]
     ELSE r : r \in rows}

\* update(id, data), the def at line 422.
update_422(rows, id, data, clock) ==
    IF data.type # "dict" THEN Raised(rows, "TypeError")
    ELSE LET values == DictPut(data.dict, "updated_at", clock)
             after == Updated(rows, [id |-> id.int], values)
         IN  Returned(after, get_with_related(after, id.int))

\* update(new_values, where_criteria), the def at line 769.  where_criteria selects
\* on the id or on the unique username, so at most one row matches.
update_769(rows, new_values, where_criteria, clock) ==
    LET from_id == where_criteria.type = "NoneType" /\ new_values.type = "dict"
                   /\ "id" \in DOMAIN new_values.dict
        where == IF where_criteria.type # "NoneType" THEN where_criteria.dict
                 ELSE IF from_id THEN [id |-> new_values.dict.id]
                 ELSE EmptyDict
        given == IF from_id
                 THEN [k \in DOMAIN new_values.dict \ {"id"} |-> new_values.dict[k]]
                 ELSE new_values.dict
    IN  IF new_values.type # "dict"
        THEN \* new_values["updated_at"] = ... on a value that is no dictionary
             Raised(rows, "TypeError")
        ELSE LET values == DictPut(given, "updated_at", clock)
                 to_update == filter_by(rows, where)
                 after == Updated(rows, where, values)
             IN  IF to_update = {} THEN Returned(rows, PyNone)
                 ELSE Returned(after,
                               get_with_related(after, (CHOOSE r \in to_update : TRUE).id))

\* delete(id), the def at line 452.
delete_452(rows, id) ==
    IF filter_by(rows, [id |-> id.int]) # {}
    THEN Returned(rows \ filter_by(rows, [id |-> id.int]), PyBool(TRUE))
    ELSE Returned(rows, PyBool(FALSE))

\* delete(criteria), the def at line 890: an int stands for {'id': criteria}, and the
\* number of deleted rows is returned.
delete_890(rows, criteria) ==
    LET where == IF criteria.type = "int" THEN [id |-> criteria.int] ELSE criteria.dict
        objects_to_delete == filter_by(rows, where)
    IN  Returned(rows \ objects_to_delete, PyInt(Cardinality(objects_to_delete)))

\* cls.update(a, b) and cls.delete(a) run the def the name is bound to.
update(rows, a, b, clock) ==
    IF Binding("update") = 422 THEN update_422(rows, a, b, clock)
    ELSE update_769(rows, a, b, clock)

delete(rows, a) ==
    IF Binding("delete") = 452 THEN delete_452(rows, a) ELSE delete_890(rows, a)

NoRecordCall == [op |-> "none", args |-> <<>>, ret |-> PyNone, raised |-> "None",
                 before |-> {}]

InitCrud ==
    /\ MainParked
    /\ HashIdle
    /\ TasksIdle
    /\ BootIdle
    /\ ResolverIdle
    /\ dump = <<>>
    /\ orm = [rows |-> {}, clock |-> 1, call |-> NoRecordCall]

\* The table and the log after a call that gave out.
AfterCall(op, args, out) ==
    [orm EXCEPT !.rows = out.rows,
                !.call = [op |-> op, args |-> args, ret |-> out.ret,
                          raised |-> out.raised, before |-> orm.rows]]

\* time passes
Tick ==
    /\ orm.clock < MaxClock
    /\ orm' = [orm EXCEPT !.clock = @ + 1]
    /\ UNCHANGED <<mainVars, hashVars, task, boot, registry, dump>>

CallInsert(data) ==
    /\ NewId(orm.rows) <= MaxRows
    /\ orm' = AfterCall("insert", <<PyDict(data)>>, insert(orm.rows, data, orm.clock))
    /\ UNCHANGED <<mainVars, hashVars, task, boot, registry, dump>>

\* The ways the callers of the repository pass arguments to update: an id and the
\* values (tests, migration_example), the values and the criteria (tutorial_example),
\* the values with the id among them.
UpdateArgs ==
    {<<PyInt(i), PyDict([email |-> e])>> : i \in 1..MaxRows, e \in Emails}
    \cup {<<PyDict([email |-> e]), PyDict([id |-> i])>> : i \in 1..MaxRows, e \in Emails}
    \cup {<<PyDict([email |-> e]), PyDict([username |-> u])>> :
             e \in Emails, u \in Usernames}
    \cup {<<PyDict([id |-> i, email |-> e]), PyNone>> : i \in 1..MaxRows, e \in Emails}

CallUpdate(args) ==
    /\ orm' = AfterCall("update", args, update(orm.rows, args[1], args[2], orm.clock))
    /\ UNCHANGED <<mainVars, hashVars, task, boot, registry, dump>>

\* An id (tests, relationship_example) or criteria (standardized_api_example).
DeleteArgs ==
    {<<PyInt(i)>> : i \in 1..MaxRows}
    \cup {<<PyDict([username |-> u])>> : u \in Usernames}

CallDelete(args) ==
    /\ orm' = AfterCall("delete", args, delete(orm.rows, args[1]))
    /\ UNCHANGED <<mainVars, hashVars, task, boot, registry, dump>>

NextCrud ==
    \/ Tick
    \/ \E u \in Usernames, e \in Emails : CallInsert([username |-> u, email |-> e])
    \/ \E args \in UpdateArgs : CallUpdate(args)
    \/ \E args \in DeleteArgs : CallDelete(args)

SpecCrud == InitCrud /\ [][NextCrud]_vars

----------------------------------------------------------------------------
\* EasyModel.to_dict (model.py) on loaded records.  The recursion is run as a stack
\* of calls, one frame for each call of to_dict that has not returned.

MaxDepth == 3

Depths == -1..MaxDepth

\* No call is pushed on a stack of this height; the recursion stays below it.
MaxStack == MaxDepth + 2

\* Records: author a1 with books b1 and b2, author a2 without books, book b3
\* without author, and n1 which is its own parent and its own child.
Objects == {"a1", "a2", "b1", "b2", "b3", "n1"}

PyList(l) == [type |-> "list", list |-> l]

\* cls._get_auto_relationship_fields() of the record's class.
RelationshipFields(obj) ==
    CASE obj \in {"a1", "a2"} -> <<"books">>
      [] obj \in {"b1", "b2", "b3"} -> <<"author">>
      [] OTHER -> <<"children", "parent">>

\* getattr(self, rel_name, None): None, a list of records, or a record.
RelatedValue(obj, rel_name) ==
    CASE obj = "a1" -> [kind |-> "list", items |-> <<"b1", "b2">>]
      [] obj = "a2" -> [kind |-> "list", items |-> <<>>]
      [] obj \in {"b1", "b2"} -> [kind |-> "record", items |-> <<"a1">>]
      [] obj = "b3" -> [kind |-> "None", items |-> <<>>]
      [] obj = "n1" /\ rel_name = "children" -> [kind |-> "list", items |-> <<"n1">>]
      [] OTHER -> [kind |-> "record", items |-> <<"n1">>]

\* self.model_dump(): the basic fields.
model_dump(obj) == DictPut(EmptyDict, "id", [type |-> "str", str |-> obj])

\* Variant: the recursive call passes max_depth on.
SameDepth(max_depth) == max_depth

\* max_depth=max_depth-1
NextDepth(max_depth) == max_depth - 1

Frame(obj, include_relationships, max_depth) ==
    [self |-> obj, include_relationships |-> include_relationships,
     max_depth |-> max_depth, pc |-> "enter", result |-> EmptyDict, pos |-> 1,
     items |-> <<>>]

NoReturn == [max_depth |-> 1, value |-> PyNone, calls |-> 0]

InitToDict ==
    /\ MainParked
    /\ HashIdle
    /\ TasksIdle
    /\ BootIdle
    /\ ResolverIdle
    /\ orm = <<>>
    /\ \E obj \in Objects, include_relationships \in BOOLEAN, d \in Depths :
          dump = [stack |-> <<Frame(obj, include_relationships, d)>>,
                  include_relationships |-> include_relationships, max_depth |-> d,
                  done |-> FALSE, result |-> PyNone, returned |-> NoReturn]

Top == dump.stack[Len(dump.stack)]

\* The relationship field the loop of the frame is at.
AtField(frame) == RelationshipFields(frame.self)[frame.pos]

\* The frame is in the loop over the relationship fields, at a field.
InLoop(frame) ==
    /\ frame.pc = "loop"
    /\ frame.include_relationships
    /\ frame.max_depth > 0
    /\ frame.pos <= Len(RelationshipFields(frame.self))

\* if max_depth <= 0 is passed: result = self.model_dump()
ToDictEnter ==
    /\ dump.stack # <<>>
    /\ Top.pc = "enter"
    /\ Top.max_depth > 0
    /\ dump' = [dump EXCEPT !.stack[Len(dump.stack)] =
                   [Top EXCEPT !.pc = "loop", !.result = model_dump(Top.self)]]
    /\ UNCHANGED <<mainVars, hashVars, task, boot, registry, orm>>

\* The field is None, or a list with no item: it is assigned without a call.
ToDictAssign ==
    /\ dump.stack # <<>>
    /\ InLoop(Top)
    /\ LET value == RelatedValue(Top.self, AtField(Top))
       IN  /\ value.items = <<>>
           /\ dump' = [dump EXCEPT !.stack[Len(dump.stack)] =
                          [Top EXCEPT !.result = DictPut(@, AtField(Top),
                                                         IF value.kind = "None" THEN PyNone
                                                         ELSE PyList(<<>>)),
                                      !.pos = @ + 1]]
    /\ UNCHANGED <<mainVars, hashVars, task, boot, registry, orm>>

\* item.to_dict(include_relationships=True, max_depth=max_depth-1) for the next item
\* of the list, or rel_value.to_dict(...) for the record.
ToDictCall ==
    /\ dump.stack # <<>>
    /\ Len(dump.stack) < MaxStack
    /\ InLoop(Top)
    /\ LET value == RelatedValue(Top.self, AtField(Top))
       IN  /\ Len(Top.items) < Len(value.items)
           /\ dump' = [dump EXCEPT !.stack =
                          Append(@, Frame(value.items[Len(Top.items) + 1], TRUE,
                                          NextDepth(Top.max_depth)))]
    /\ UNCHANGED <<mainVars, hashVars, task, boot, registry, orm>>

\* What the frame returns: {} when max_depth <= 0, result after the loop.
Returns(frame) == IF frame.pc = "enter" THEN PyDict(EmptyDict) ELSE PyDict(frame.result)

\* The caller's frame after the call it waits for returned value.
Resumed(frame, value) ==
    LET related == RelatedValue(frame.self, AtField(frame))
        items == Append(frame.items, value)
    IN  IF related.kind = "record"
        THEN [frame EXCEPT !.result = DictPut(@, AtField(frame), value), !.pos = @ + 1]
        ELSE IF Len(items) < Len(related.items)
        THEN [frame EXCEPT !.items = items]
        ELSE [frame EXCEPT !.result = DictPut(@, AtField(frame), PyList(items)),
                           !.pos = @ + 1, !.items = <<>>]

\* return {} of a call with max_depth <= 0, or return result after the loop.
ToDictReturn ==
    /\ dump.stack # <<>>
    /\ \/ Top.pc = "enter" /\ Top.max_depth <= 0
       \/ Top.pc = "loop" /\ ~InLoop(Top)
    /\ LET n == Len(dump.stack)
           returned == [max_depth |-> Top.max_depth, value |-> Returns(Top),
                        calls |-> IF Top.pc = "enter" THEN 0 ELSE Top.pos - 1]
       IN  IF n = 1
           THEN dump' = [dump EXCEPT !.stack = <<>>, !.done = TRUE,
                                     !.result = Returns(Top), !.returned = returned]
           ELSE dump' = [dump EXCEPT !.stack =
                                         [i \in 1..(n - 1) |->
                                             IF i = n - 1
                                             THEN Resumed(dump.stack[i], Returns(Top))
                                             ELSE dump.stack[i]],
                                     !.returned = returned]
    /\ UNCHANGED <<mainVars, hashVars, task, boot, registry, orm>>

NextToDict ==
    \/ ToDictEnter
    \/ ToDictAssign
    \/ ToDictCall
    \/ ToDictReturn

\* The interpreter runs the call whenever it can take a step.
SpecToDict == InitToDict /\ [][NextToDict]_vars /\ WF_vars(NextToDict)

----------------------------------------------------------------------------
\* Properties.

\* The fingerprint store and the history as the files hold them.
StoreHas(name) == hashFile.state = "ok" /\ name \in DOMAIN hashFile.data

Stored(name) == hashFile.data[name]

History == IF historyFile.state = "ok" THEN historyFile.data ELSE <<>>

HistorySince(start) == SubSeq(History, Len(start) + 1, Len(History))

ModelSet == {models[i] : i \in DOMAIN models}

Entries(name) == {changes[i] : i \in {j \in DOMAIN changes : changes[j].name = name}}

OpKinds(plan) == {plan[i].operation : i \in DOMAIN plan}

\* The run ended because an operation of apply_migration failed or was cancelled.
FailedInApply ==
    /\ pc = "idle"
    /\ outcome \in {"raised", "cancelled"}
    /\ opi \in 1..Len(ops)

\* changes is what detect_model_changes has just returned from the files as they are.
JustDetected ==
    \/ pc = "idle" /\ outcome = "detected"
    \/ pc = "idle" /\ outcome = "returned" /\ models # <<>> /\ changes = <<>>
    \/ pc = "loop" /\ idx = 1

\* C1: when an operation fails while an entity is being applied, the live schema of
\* that entity is the one before the run, its stored fingerprint is the one before the
\* run, and no history record for it was appended.
C1_FailedApplyIsRolledBack ==
    FailedInApply =>
        LET t == TableName(CurrentModel)
            name == ClassName(CurrentModel)
        IN  /\ HasTable(db, t) <=> HasTable(atStart.db, t)
            /\ HasTable(db, t) => db[t] = atStart.db[t]
            /\ StoreHas(name) <=> name \in DOMAIN atStart.hashes
            /\ StoreHas(name) => Stored(name) = atStart.hashes[name]
            /\ \A i \in DOMAIN HistorySince(atStart.history) :
                  HistorySince(atStart.history)[i].model # name

\* C1 witness: the second operation of a plan failed after the first was executed.
C1_Witness ==
    /\ FailedInApply
    /\ outcome = "raised"
    /\ Len(ops) >= 2
    /\ opi = 2

\* C2: after a database failure for one entity, every other changed entity of the
\* run has been applied and recorded and the caller has a result map.
C2_OtherEntitiesContinue ==
    (pc = "idle" /\ outcome = "raised") =>
        \A i \in DOMAIN changes :
            i # idx =>
                /\ StoreHas(changes[i].name)
                /\ Stored(changes[i].name) = changes[i].hash
                /\ changes[i].name \in Keys(results)

\* C3: the tables whose creation the history records exist in the live database.
C3_RecordedDdlIsInDatabase ==
    pc = "idle" =>
        \A i \in DOMAIN History :
            \A k \in DOMAIN History[i].changes :
                History[i].changes[k].operation = "create_table" =>
                    HasTable(db, History[i].changes[k].table_name)

\* C4: when a run returns without a failure, detection over the same entities
\* returns no entries.
C4_ReturnedRunRecordsAll ==
    (pc = "idle" /\ outcome = "returned") =>
        detect_model_changes(models, hashFile, defs) = <<>>

\* C5: an entity is reported new iff the store has no fingerprint under its name,
\* modified iff the stored fingerprint differs from its current one, and has no entry
\* iff the stored fingerprint equals its current one.
C5_DetectClassifies ==
    JustDetected =>
        /\ Len(changes) = Cardinality(Keys(changes))
        /\ Keys(changes) \subseteq {ClassName(c) : c \in ModelSet}
        /\ \A c \in ModelSet :
              LET name == ClassName(c)
                  current == get_model_hash(c, defs)
              IN  /\ (\E e \in Entries(name) : e.status = "new") <=> ~StoreHas(name)
                  /\ (\E e \in Entries(name) : e.status = "modified")
                        <=> (StoreHas(name) /\ Stored(name) # current)
                  /\ Entries(name) = {} <=> (StoreHas(name) /\ Stored(name) = current)
                  /\ \A e \in Entries(name) : e.status \in {"new", "modified"}

\* C5 witness: of two entities, one is reported modified and the other has no entry.
C5_Witness ==
    /\ JustDetected
    /\ Len(models) = 2
    /\ Len(changes) = 1
    /\ changes[1].status = "modified"

\* C6: a detect_model_changes call leaves the fingerprint file, the history file,
\* the state directory and the live schema as they were.
C6_DetectIsReadOnly ==
    [][outcome' = "detected" =>
          /\ hashFile' = hashFile
          /\ historyFile' = historyFile
          /\ dirExists' = dirExists
          /\ db' = db]_vars

\* C6 witness: detection has run over a fingerprint file that is malformed.
C6_Witness ==
    /\ outcome = "detected"
    /\ hashFile.state = "malformed"
    /\ Len(changes) = 2

\* C7: the plan for an entity whose table is absent is a single create_table naming
\* the entity's table.
C7_AbsentTablePlan ==
    (pc = "planned" /\ ~HasTable(tx, TableName(CurrentModel))) =>
        /\ Len(ops) = 1
        /\ ops[1] = [operation |-> "create_table", table_name |-> TableName(CurrentModel)]

\* C7 witness: a plan was made for an entity of three columns that has no table.
C7_Witness ==
    /\ pc = "planned"
    /\ ~HasTable(tx, TableName(CurrentModel))
    /\ Cardinality(DOMAIN defs[CurrentModel]) = 3
    /\ lastEdit.kind # "none"

\* The operations C8 expects of the plan of class c against the live columns.
ExpectedAdds(c, live) ==
    {[operation |-> "add_column", table_name |-> TableName(c), column_name |-> n,
      column_type |-> defs[c][n].type, nullable |-> defs[c][n].nullable] :
        n \in DOMAIN defs[c] \ ColNames(live)}

ExpectedAlters(c, live) ==
    {[operation |-> "alter_column", table_name |-> TableName(c), column_name |-> col.name,
      old_type |-> col.type, new_type |-> defs[c][col.name].type] :
        col \in {l \in {live[i] : i \in DOMAIN live} :
                    l.name \in DOMAIN defs[c] /\ defs[c][l.name].type # l.type}}

ExpectedDrops(c, live) ==
    {[operation |-> "drop_column", table_name |-> TableName(c), column_name |-> n] :
        n \in ColNames(live) \ DOMAIN defs[c]}

\* C8: the plan for an entity whose table exists holds exactly one add_column per
\* field absent from the live columns, one alter_column per field whose type string
\* differs, one drop_column per live column absent from the entity.
C8_ExistingTablePlan ==
    (pc = "planned" /\ HasTable(tx, TableName(CurrentModel))) =>
        LET c == CurrentModel
            live == tx[TableName(c)]
            expected == ExpectedAdds(c, live) \cup ExpectedAlters(c, live)
                            \cup ExpectedDrops(c, live)
        IN  /\ {ops[i] : i \in DOMAIN ops} = expected
            /\ Len(ops) = Cardinality(expected)

\* C8 witness: a plan for an existing table alters one column and adds or drops another.
C8_Witness ==
    /\ pc = "planned"
    /\ HasTable(tx, TableName(CurrentModel))
    /\ "alter_column" \in OpKinds(ops)
    /\ Len(ops) = 2

\* C8 witness of the empty plan: names and type strings all match.
C8_WitnessEmpty ==
    /\ pc = "planned"
    /\ HasTable(tx, TableName(CurrentModel))
    /\ ops = <<>>

\* C9 as stated: every add_column precedes every alter_column, which precedes every
\* drop_column.
C9_AddsAltersDrops ==
    pc = "planned" =>
        \A i, j \in DOMAIN ops :
            i < j =>
                /\ ~(ops[i].operation = "alter_column" /\ ops[j].operation = "add_column")
                /\ ops[i].operation = "drop_column" => ops[j].operation = "drop_column"

ColumnPosition(name) == CHOOSE i \in DOMAIN ColOrder : ColOrder[i] = name

\* C9 as amended: every add_column and alter_column precedes every drop_column, and
\* the add_column and alter_column operations follow the order of the entity's fields.
C9_DropsLast ==
    pc = "planned" =>
        \A i, j \in DOMAIN ops :
            i < j =>
                /\ ops[i].operation = "drop_column" => ops[j].operation = "drop_column"
                /\ ops[j].operation \in {"add_column", "alter_column"} =>
                      ColumnPosition(ops[i].column_name) < ColumnPosition(ops[j].column_name)

\* C9 witness: a plan alters a column and then drops another.
C9_Witness ==
    /\ pc = "planned"
    /\ Len(ops) = 2
    /\ ops[1].operation = "alter_column"
    /\ ops[2].operation = "drop_column"

\* One field was added to a class while every class was migrated, and the new
\* fingerprint of the class is not stored yet.
FieldJustAdded ==
    /\ lastEdit.kind = "add_field"
    /\ lastEdit.migrated
    /\ StoreHas(ClassName(lastEdit.cls))
    /\ Stored(ClassName(lastEdit.cls)) # get_model_hash(lastEdit.cls, defs)

\* C10: after one field was added to a migrated entity, detection reports that
\* entity as modified and no other entity, and its plan is one add_column naming the
\* new field.
C10_AddedFieldPlan ==
    FieldJustAdded =>
        /\ \A i \in DOMAIN changes :
              /\ changes[i].name = ClassName(lastEdit.cls)
              /\ changes[i].status = "modified"
        /\ (lastEdit.cls \in ModelSet) => Len(changes) = 1
        /\ pc = "planned" =>
              /\ Len(ops) = 1
              /\ ops[1].operation = "add_column"
              /\ ops[1].table_name = TableName(lastEdit.cls)
              /\ ops[1].column_name = lastEdit.col

\* C10 witness: a field was added to A, detection ran over A and B (B refers to A),
\* and the plan for A was made.
C10_Witness ==
    /\ FieldJustAdded
    /\ lastEdit.cls = "A"
    /\ Len(models) = 2
    /\ pc = "planned"
    /\ "y" \in DOMAIN defs["B"]


\* apply_migration has just recorded the entity at changes[idx - 1].
JustRecorded == pc = "loop" /\ idx > 1 /\ ops # <<>>

RecordedModel == FindModel(models, changes[idx - 1].name)

\* C11: whenever apply_migration(entity, operations) completes without error, the
\* last history record is for the entity and its changes are the given operation
\* list in the given order, and the stored fingerprint of the entity is its
\* current fingerprint.
C11_AppliedAsGiven ==
    JustRecorded =>
        /\ History # <<>>
        /\ History[Len(History)].model = ClassName(RecordedModel)
        /\ History[Len(History)].changes = ops
        /\ StoreHas(ClassName(RecordedModel))
        /\ Stored(ClassName(RecordedModel)) = get_model_hash(RecordedModel, defs)



\* What detect_model_changes(models) returns from the files as they are now.
DetectedNow == detect_model_changes(models, hashFile, defs)

\* C12: an entity with no stored fingerprint is reported new; once apply_migration
\* has completed for it, with its fields as they were, detection has no entry for it.
C12_NewThenUnchanged ==
    /\ JustDetected =>
          \A c \in ModelSet :
              ~StoreHas(ClassName(c)) =>
                  /\ Entries(ClassName(c)) # {}
                  /\ \A e \in Entries(ClassName(c)) : e.status = "new"
    /\ (JustRecorded /\ changes[idx - 1].status = "new") =>
          \A i \in DOMAIN DetectedNow : DetectedNow[i].name # changes[idx - 1].name

\* A run over A and B has recorded A, which was new; B is still to come and is new.
C12_Witness ==
    /\ JustRecorded
    /\ changes[idx - 1].status = "new"
    /\ ~(changes[idx - 1].name \in DOMAIN atStart.hashes)
    /\ idx <= Len(changes)
    /\ DetectedNow # <<>>



IsPrefix(s, t) == Len(s) <= Len(t) /\ SubSeq(t, 1, Len(s)) = s

\* C13: the migration history is append-only: in every step (construction of a
\* manager, detection, planning, applying, a whole migrate_models run, an edit of a
\* class) the history before the step is a prefix of the history after it.
C13_HistoryAppendOnly == [][IsPrefix(History, History')]_vars

\* A run that started with records in the history has appended one more.
C13_Witness ==
    /\ JustRecorded
    /\ atStart.history # <<>>
    /\ Len(History) > Len(atStart.history)
    /\ IsPrefix(atStart.history, History)



Malformed(hf) == hf.state = "malformed"

\* The step is the end of apply_migration for CurrentModel.
RecordStep == pc = "exec" /\ opi > Len(ops) /\ pc' = "loop"

\* C14: a fingerprint file or history file that is not valid JSON counts as empty
\* and fails nothing: a detection over a malformed fingerprint file reports every
\* class new, and apply_migration ending over a malformed file leaves a history
\* file that parses, with the record of the entity last, and a fingerprint file that
\* parses and holds the fingerprint of the entity.
C14_MalformedIsEmpty ==
    [][/\ (JustDetected' /\ Malformed(hashFile')) =>
              \A c \in ModelSet' :
                  /\ Entries(ClassName(c))' # {}
                  /\ \A e \in Entries(ClassName(c))' : e.status = "new"
       /\ (RecordStep /\ (Malformed(hashFile) \/ Malformed(historyFile))) =>
              /\ historyFile'.state = "ok"
              /\ History' # <<>>
              /\ History'[Len(History')].model = ClassName(CurrentModel)
              /\ History'[Len(History')].changes = applied_changes
              /\ hashFile'.state = "ok"
              /\ ClassName(CurrentModel) \in DOMAIN hashFile'.data
              /\ hashFile'.data[ClassName(CurrentModel)] = get_model_hash(CurrentModel, defs)
      ]_vars

\* A run has started over a fingerprint file that does not parse: detection has
\* reported both classes new.
C14_Witness ==
    /\ pc = "loop"
    /\ idx = 1
    /\ Malformed(hashFile)
    /\ Len(changes) = 2
    /\ \A i \in DOMAIN changes : changes[i].status = "new"

\* apply_migration has executed its operations and is about to record over a
\* history file that does not parse.
C14_WitnessApply ==
    /\ pc = "exec"
    /\ opi > Len(ops)
    /\ Malformed(historyFile)



\* C15: once a manager has been constructed (a run is in progress, which began by
\* constructing one), neither the fingerprint file nor the history file is absent,
\* whatever the state directory was before.
C15_FilesCreatedOnConstruct ==
    pc # "idle" => hashFile.state # "absent" /\ historyFile.state # "absent"



Elements(s) == {s[i] : i \in DOMAIN s}

\* What the claim names as schema-relevant.
NamedStructure(e) ==
    [table_name |-> e.table_name,
     fields |-> {<<c.name, c.type, c.nullable, c.primary_key, c.unique, c.foreign_keys>> :
                    c \in Elements(e.columns)},
     relationships |-> {<<r.name, r.target, r.back_populates>> :
                           r \in Elements(e.relationships)}]

\* C16 as stated: two fingerprints are equal exactly when the classes agree on the
\* table name, on each field's type, nullability, primary-key flag, unique flag and
\* foreign keys, and on each relationship's target and back-reference name.
C16_NamedStructureOnly ==
    digest.done => (digest.h1 = digest.h2 <=> NamedStructure(pair.e1) = NamedStructure(pair.e2))

\* What the fingerprint is computed from.
HashedStructure(e) ==
    [table_name |-> e.table_name,
     fields |-> {<<c.name, c.type, c.nullable, c.primary_key, c.default, c.unique,
                   c.foreign_keys>> : c \in Elements(e.columns)},
     relationships |-> {<<r.name, r.target, r.back_populates, r.link_model,
                          r.sa_relationship_args>> : r \in Elements(e.relationships)}]

\* C16, amended: two fingerprints are equal exactly when the classes agree on the
\* table name, on the fields and each field's type, nullability, primary-key flag,
\* default, unique flag and foreign keys, and on the relationships and each
\* relationship's target, back-reference name, link model and relationship
\* arguments; anything else (the order of enumeration, an index flag, the docstring)
\* leaves the fingerprint as it is.
C16_HashedStructure ==
    digest.done => (digest.h1 = digest.h2 <=> HashedStructure(pair.e1) = HashedStructure(pair.e2))

\* Two classes that differ in the default of a column only have different fingerprints.
C16_Witness ==
    /\ digest.done
    /\ NamedStructure(pair.e1) = NamedStructure(pair.e2)
    /\ \E i \in DOMAIN pair.e1.columns :
          /\ pair.e2.columns = [pair.e1.columns EXCEPT ![i].default = pair.e2.columns[i].default]
          /\ pair.e2.columns[i].default # pair.e1.columns[i].default
    /\ digest.h1 # digest.h2

SameUpToOrder(e1, e2) ==
    /\ e1.table_name = e2.table_name
    /\ e1.doc = e2.doc
    /\ Elements(e1.columns) = Elements(e2.columns)
    /\ Elements(e1.relationships) = Elements(e2.relationships)

BothReturned == \A t \in Tasks : task[t].pc = "returned"

\* The records the two tasks appended, as a set.
TaskRecords == UNION {Elements(task[t].records) : t \in Tasks}

\* C18: when two migrate_models runs interleaved on one event loop have both
\* returned, the history holds every record either of them appended, each once,
\* the store holds the current fingerprint of every entity either of them recorded,
\* and every fingerprint both of them found in the store is still there.
C18_NoLostUpdate ==
    BothReturned =>
        /\ \A r \in TaskRecords : \E i \in DOMAIN History : History[i] = r
        /\ Cardinality({i \in DOMAIN History : History[i] \in TaskRecords})
               = Len(task[1].records) + Len(task[2].records)
        /\ \A t \in Tasks : \A i \in DOMAIN task[t].records :
              LET name == task[t].records[i].model
              IN  /\ StoreHas(name)
                  /\ Stored(name) = get_model_hash(FindModel(task[t].models, name), defs)
        /\ \A name \in DOMAIN task[1].stored \cap DOMAIN task[2].stored : StoreHas(name)

\* Both runs have returned after each recorded an entity the other did not, and
\* the second one detected before the first one recorded.
C18_Witness ==
    /\ BothReturned
    /\ \E i \in DOMAIN task[1].records :
          /\ task[1].records[i].model \notin {task[2].records[j].model : j \in DOMAIN task[2].records}
          /\ task[1].records[i].model \notin DOMAIN task[2].stored
    /\ \E j \in DOMAIN task[2].records :
          /\ task[2].records[j].model \notin {task[1].records[i].model : i \in DOMAIN task[1].records}
          /\ task[2].records[j].model \notin DOMAIN task[1].stored



\* detect_model_changes has been called in this init_db run, so fingerprints were
\* computed.
FingerprintsComputed == models # <<>>

\* C19: in an init_db run with auto-relationships enabled and migrate=True the
\* relationships are processed before any fingerprint is computed, and the
\* create-missing-tables step starts only after check_and_migrate_models has
\* returned; with migrate=False no fingerprint is computed and the state directory
\* and its two files stay as they were.
C19_InitDbOrder ==
    /\ (boot.auto /\ boot.migrate /\ FingerprintsComputed) => boot.processed
    /\ (boot.migrate /\ boot.pc \in {"create", "done"}) =>
          /\ pc = "idle"
          /\ FingerprintsComputed => outcome = "returned"
          /\ boot.has_migrations => FingerprintsComputed
    /\ ~boot.migrate =>
          /\ ~FingerprintsComputed
          /\ <<dirExists, hashFile, historyFile>> = boot.files

\* init_db(migrate=True) with auto-relationships has processed the relationships,
\* migrated and recorded an entity, and created the missing tables.
C19_Witness ==
    /\ boot.pc = "done"
    /\ boot.auto
    /\ boot.migrate
    /\ boot.processed
    /\ results # <<>>
    /\ hashFile # boot.files[2]

\* init_db(migrate=False) has created the tables and left the files alone.
C19_WitnessNoMigrate ==
    /\ boot.pc = "done"
    /\ ~boot.migrate
    /\ boot.has_migrations
    /\ db # EmptyDict
    /\ boot.files[2] = AbsentFile



\* resolveAll() has run and no entity was registered since.
AfterResolve == registry.resolves > 0 /\ registry.resolved = registry.order

\* The foreign keys between registered entities, as <<owner, field>>.
RegisteredForeignKeys ==
    UNION {{<<o, ForeignKeyFields(o)[i]>> :
               i \in {j \in DOMAIN ForeignKeyFields(o) :
                         ForeignKeyFields(o)[j].target \in Registered(registry)}} :
           o \in Registered(registry)}

\* The one-to-many descriptors on the target that pair with many-to-one d of owner.
PairsOf(owner, d) ==
    {e \in registry.attrs[d.target] :
        /\ e.kind = "one-to-many"
        /\ e.target = owner
        /\ e.name = d.back_populates
        /\ e.back_populates = d.name}

ManyToOnes(owner, target) ==
    {d \in registry.attrs[owner] : d.kind = "many-to-one" /\ d.target = target}

Collided(owner, fk) == <<owner, fk.column, "collision">> \in registry.warnings

UniqueNames(attrs) ==
    \A t \in Tables : \A d, e \in attrs[t] : d.name = e.name => d = e

\* C21: resolveAll() is idempotent.  A call of resolveAll() that follows a call
\* with no registration in between leaves the descriptor set of every entity as
\* it was, and after every call no entity has two attributes of one name.
C21_Idempotent ==
    [][registry'.resolves > registry.resolves =>
          /\ UniqueNames(registry'.attrs)
          /\ AfterResolve => registry'.attrs = registry.attrs]_vars

\* resolveAll() ran twice on a registry with a junction, a declared relationship
\* and two foreign keys to one target.
C21_Witness ==
    /\ AfterResolve
    /\ registry.resolves = 2
    /\ registry.before = registry.attrs
    /\ Registered(registry) = Tables
    /\ \E d \in registry.attrs["author"] : d.origin = "explicit"
    /\ \E d \in registry.attrs["book"] : d.kind = "many-to-many"

\* The foreign keys between the entities the last resolveAll() saw, as <<owner, field>>.
ResolvedForeignKeys ==
    LET seen == {registry.resolved[i] : i \in DOMAIN registry.resolved}
    IN  UNION {{<<o, ForeignKeyFields(o)[i]>> :
                   i \in {j \in DOMAIN ForeignKeyFields(o) :
                             ForeignKeyFields(o)[j].target \in seen}} :
               o \in seen}

\* Attribute d of entity t is in attrs with its target, cardinality and back-reference.
Kept(attrs, t, d) ==
    /\ HasAttribute(attrs, t, d.name)
    /\ \A e \in attrs[t] :
          e.name = d.name =>
              /\ e.target = d.target
              /\ e.kind = d.kind
              /\ e.back_populates = d.back_populates

\* The one-to-many attribute of foreign key p = <<owner, field>> is on the target.
Synthesized(attrs, p) ==
    \E e \in attrs[p[2].target] :
        /\ e.name = Pluralize(p[1])
        /\ e.kind = "one-to-many"
        /\ e.target = p[1]
        /\ e.fk = p[2].column

\* C22: resolveAll() never overwrites relationship state.  Every attribute an entity
\* had before the call it has after it, with the same target, cardinality and
\* back-reference name; a foreign key without a relationship attribute whose
\* pluralized owner name was already an attribute of the target gets no one-to-many
\* attribute and a warning, and one whose attribute is missing has a warning.
C22_NeverOverwrites ==
    registry.resolves > 0 =>
        /\ \A t \in Tables : \A d \in registry.before[t] : Kept(registry.attrs, t, d)
        /\ \A p \in ResolvedForeignKeys :
              (\A d \in registry.before[p[1]] : d.fk # p[2].column) =>
                  /\ HasAttribute(registry.before, p[2].target, Pluralize(p[1])) =>
                        ~Synthesized(registry.attrs, p) /\ Collided(p[1], p[2])
                  /\ ~Synthesized(registry.attrs, p) => Collided(p[1], p[2])

\* author.books was declared for something else: book.author_id got no one-to-many
\* attribute on author, the declared one is as it was and the collision is recorded;
\* the same for the declared book.tags and the junction.
C22_Witness ==
    /\ registry.resolves > 0
    /\ {"author", "book", "tag", "booktag"} \subseteq
           {registry.resolved[i] : i \in DOMAIN registry.resolved}
    /\ \E d \in registry.before["author"] :
          d.name = Pluralize("book") /\ d.target = "tag" /\ d \in registry.attrs["author"]
    /\ \E d \in registry.before["book"] :
          d.name = Pluralize("tag") /\ d.origin = "explicit" /\ d \in registry.attrs["book"]
    /\ Collided("book", ForeignKeyFields("book")[1])
    /\ ~Synthesized(registry.attrs, <<"book", ForeignKeyFields("book")[1]>>)
    /\ <<"booktag", Pluralize("tag"), "collision">> \in registry.warnings

\* The targets of the foreign keys of entity t.
TargetsOf(t) == {ForeignKeyFields(t)[i].target : i \in DOMAIN ForeignKeyFields(t)}

\* The registered junctions with two registered sides, as <<junction, side, other>>.
LinkedSides ==
    {x \in Registered(registry) \X Registered(registry) \X Registered(registry) :
        /\ IsJunction(x[1])
        /\ {x[2], x[3]} \subseteq TargetsOf(x[1])
        /\ x[2] # x[3]}

ManyToManys(side, other) ==
    {d \in registry.attrs[side] : d.kind = "many-to-many" /\ d.target = other}

RowOf(rows, id) == CHOOSE r \in rows : r.id = id

\* The last call was cls.<op>(id, ...) with the id of a row of the table.
CalledOnExisting(op) ==
    /\ orm.call.op = op
    /\ orm.call.args[1].type = "int"
    /\ \E r \in orm.call.before : r.id = orm.call.args[1].int

\* C24: delete(id) with the id of an existing record returns True, and afterwards
\* get_by_id(id) returns None.
C24_DeleteReturnsTrue ==
    CalledOnExisting("delete") =>
        /\ orm.call.raised = "None"
        /\ orm.call.ret.type = "bool"
        /\ orm.call.ret.bool = TRUE
        /\ get_by_id(orm.rows, orm.call.args[1].int) = PyNone

\* C25: update(id, {field: value}) with the id of an existing record returns that
\* record with the field equal to the value and with an updated_at strictly later
\* than the record had before the call.
C25_UpdateReturnsRecord ==
    CalledOnExisting("update") =>
        /\ orm.call.raised = "None"
        /\ orm.call.ret.type = "record"
        /\ orm.call.ret.record.id = orm.call.args[1].int
        /\ orm.call.ret.record.email = orm.call.args[2].dict.email
        /\ orm.call.ret.record.updated_at >
               RowOf(orm.call.before, orm.call.args[1].int).updated_at

\* C26: after insert(data) returns a record r, r carries the given field values,
\* get_by_id(r.id) returns a record with the same field values, and
\* get_by_attribute on the value of the unique field returns the record of id r.id.
C26_InsertThenGet ==
    (orm.call.op = "insert" /\ orm.call.raised = "None") =>
        LET data == orm.call.args[1].dict
            r == orm.call.ret
            by_id == get_by_id(orm.rows, r.record.id)
            by_attribute == get_by_attribute(orm.rows, [username |-> data.username])
        IN  /\ r.type = "record"
            /\ \A k \in DOMAIN data : r.record[k] = data[k]
            /\ by_id.type = "record"
            /\ \A k \in DOMAIN data : by_id.record[k] = data[k]
            /\ by_attribute.type = "record"
            /\ by_attribute.record.id = r.record.id

\* insert returned the second row of the table, of the email of the first row.
C26_Witness ==
    /\ orm.call.op = "insert"
    /\ orm.call.raised = "None"
    /\ orm.call.ret.type = "record"
    /\ orm.call.ret.record.id = 2
    /\ \E q \in orm.call.before : q.email = orm.call.ret.record.email

\* C27: an entity with no stored fingerprint has no table in the live database, and
\* the plan computed for an entity of status new is a single create_table.
C27_NewHasNoTable ==
    /\ \A c \in Classes : ~StoreHas(ClassName(c)) => ~HasTable(db, TableName(c))
    /\ (pc = "planned" /\ changes[idx].status = "new") =>
           ops = <<CreateTableOp(TableName(CurrentModel))>>

ClassNames == {ClassName(c) : c \in Classes}

\* C28: apply_migration for an entity changes only the key of that entity in the
\* fingerprint store.  Whatever the file was when the run began (absent, not
\* parsing, holding fingerprints), every name for which apply_migration has not
\* completed in the run is stored as the run found it: absent if it was absent,
\* with the same fingerprint otherwise.
C28_OnlyOwnKey ==
    atStart # NoStart =>
        \A n \in ClassNames \ Keys(results) :
            /\ StoreHas(n) <=> n \in DOMAIN atStart.hashes
            /\ StoreHas(n) => Stored(n) = atStart.hashes[n]

\* apply_migration has completed for one entity and written its fingerprint over a
\* store that held the fingerprint of the other entity.
C28_Witness ==
    /\ JustRecorded
    /\ \E n \in ClassNames \ Keys(results) : StoreHas(n)
    /\ \E n \in Keys(results) :
          /\ n \in DOMAIN atStart.hashes
          /\ StoreHas(n)
          /\ Stored(n) # atStart.hashes[n]

\* C29: the fingerprint written to the store under a name is the fingerprint that
\* detect_model_changes compared for that name: when apply_migration has completed
\* for an entry of changes, the store holds the fingerprint of that entry.
C29_WrittenIsCompared ==
    JustRecorded =>
        /\ StoreHas(changes[idx - 1].name)
        /\ Stored(changes[idx - 1].name) = changes[idx - 1].hash

\* The number of dictionaries nested in a value returned by to_dict.
RECURSIVE Levels(_)
Levels(v) ==
    LET Most(S) == IF S = {} THEN 0 ELSE CHOOSE n \in S : \A k \in S : k <= n
    IN  CASE v.type = "dict" -> 1 + Most({Levels(v.dict[k]) : k \in DOMAIN v.dict})
          [] v.type = "list" -> Most({Levels(v.list[i]) : i \in DOMAIN v.list})
          [] OTHER -> 0

\* Every recursive call passes max_depth - 1 and includes relationships; the stack
\* stays below the height at which calls are refused.
DepthDecreases ==
    /\ Len(dump.stack) < MaxStack
    /\ \A i \in 2..Len(dump.stack) :
          /\ dump.stack[i].max_depth = dump.stack[i - 1].max_depth - 1
          /\ dump.stack[i].include_relationships

\* A call with max_depth <= 0 returned the empty dictionary and made no call.
NoDepthNoCall ==
    dump.returned.max_depth <= 0 =>
        /\ dump.returned.value = PyDict(EmptyDict)
        /\ dump.returned.calls = 0

\* The result of to_dict(max_depth=d) nests related records at most d levels below
\* the record itself, and is the empty dictionary when d <= 0.
NestsAtMost ==
    dump.done =>
        /\ dump.max_depth <= 0 => dump.result = PyDict(EmptyDict)
        /\ dump.max_depth > 0 => Levels(dump.result) - 1 <= dump.max_depth

\* C30: to_dict(include_relationships, max_depth=d) terminates for every d and every
\* relationship graph, cyclic ones included: every recursive call passes
\* max_depth - 1, a call with max_depth <= 0 returns the empty dictionary without
\* recursing, the result nests related records at most d levels deep, and the call
\* returns.
C30_ToDictTerminates ==
    /\ [](DepthDecreases /\ NoDepthNoCall /\ NestsAtMost)
    /\ <>dump.done

\* to_dict(include_relationships=True, max_depth=3) of a1, whose books refer back to
\* it, has returned a result of three levels of related records.
C30_Witness ==
    /\ dump.done
    /\ dump.include_relationships
    /\ dump.max_depth = 3
    /\ dump.result.type = "dict"
    /\ dump.result.dict["id"].str = "a1"
    /\ Levels(dump.result) = 4


====
